---- MODULE Spec2Model ----
(***************************************************************************)
(* A model of the RAG document question-answering backend: the Redis       *)
(* conversation memory (app/services/memory_service.py), the Qdrant vector *)
(* store (app/services/vector_store.py), the chunker                       *)
(* (app/services/document_processor.py), the embedding provider            *)
(* (app/services/embedding_service.py), the ingestion endpoint             *)
(* (app/api/v1/ingestion.py), the dependency providers                     *)
(* (app/core/dependencies.py) and the orchestrator                         *)
(* (app/services/rag_service.py).                                          *)
(*                                                                         *)
(* The specifications share the state:                                     *)
(*   SpecMem    one client running the memory service's handlers in turn;  *)
(*   SpecVS     one client running the vector store's handlers in turn;    *)
(*   SpecDel    deletes and searches on a collection in which a document   *)
(*              holds more points than one scroll page;                    *)
(*   SpecChunk  one call of chunk_text_fixed, a step per loop iteration;   *)
(*   SpecEmb    one client running generate_embeddings_batch;              *)
(*   SpecIngest concurrent uploads and a delete request, interleaved at    *)
(*              their service calls, starting with the vector store        *)
(*              uninitialised;                                             *)
(*   SpecSave   concurrent save_message calls, interleaved at their Redis  *)
(*              commands;                                                  *)
(*   SpecBoot   the first requests of a process, resolving the singleton   *)
(*              dependencies in worker threads;                            *)
(*   Spec       concurrent ask calls, interleaved at their remote calls,   *)
(*              while documents are added to and deleted from the index.   *)
(***************************************************************************)
EXTENDS Integers, Sequences, FiniteSets, TLC

VARIABLES
    redis,      \* the Redis keyspace: key -> list of JSON values, or hash
    now,        \* the latest instant datetime.utcnow() has returned
    everHad,    \* history: the session ids that ever had a message appended
    ret,        \* the outcome of the last handler a sequential client ran
    index,      \* the Qdrant collection: a set of points
    nextId,     \* the number of point ids uuid4() has handed out
    pc,         \* per ask call: the step it is about to take
    fr,         \* per ask call: its local variables (and its step trace)
    sql,        \* the SQL database: the committed document and chunk rows
    collection, \* the vector size of the Qdrant collection, None if absent
    store,      \* the _vector_store global: None until it is initialised
    provider    \* the embedding provider: the _embedding_service global, the
                \* class attribute _instance, and the instances created

vars ==
    <<redis, now, everHad, ret, index, nextId, pc, fr, sql, collection, store, provider>>
memVars == <<redis, now, everHad>>
vsVars == <<index, nextId>>
askVars == <<pc, fr>>
ingVars == <<sql, collection, store, provider>>

----------------------------------------------------------------------------
(* Bounds of the model.                                                    *)

\* the instants datetime.utcnow() returns
Instants == {0, 1}
\* the most messages the sequential memory client stores in all
MaxMsgs == 3
\* the largest limit passed to get_conversation_history
MaxLimit == MaxMsgs

(* Optional values: Python's None is the empty sequence, a value v is <<v>>. *)
None == <<>>
Some(v) == <<v>>

Max(a, b) == IF a >= b THEN a ELSE b
Min(a, b) == IF a <= b THEN a ELSE b

\* the last k elements of a sequence: Python's seq[-k:] for 1 <= k
LastK(seq, k) == SubSeq(seq, Len(seq) - Min(k, Len(seq)) + 1, Len(seq))

\* all orders in which the elements of a finite set can be enumerated
RECURSIVE Orders(_)
Orders(S) ==
    IF S = {} THEN {<<>>}
    ELSE UNION {{<<x>> \o o : o \in Orders(S \ {x})} : x \in S}

\* the dimension of the embedding model's vectors (get_embedding_dimension)
EmbeddingDim == 2
\* the SQL database without rows
EmptySQL == [documents |-> {}, document_chunks |-> {}]
\* the deployment the handlers of the services run in: no rows, and the
\* vector store initialised on a collection of the model's dimension
\* an EmbeddingService instance after _initialize, and the provider once
\* get_embedding_service has returned it
Initialized == [model |-> Some("model"), embedding_dim |-> Some(EmbeddingDim)]
LoadedProvider ==
    [service |-> Some(1), instance |-> Some(1), objects |-> <<Initialized>>, loads |-> 1]
Deployed ==
    /\ sql = EmptySQL
    /\ collection = Some(EmbeddingDim)
    /\ store = Some([vector_size |-> EmbeddingDim])
    /\ provider = LoadedProvider

----------------------------------------------------------------------------
(* Conversation memory: app/services/memory_service.py                     *)

\* A session id is a client-supplied string; it is modelled as the sequence
\* of its ':'-separated segments, so that "s1:x" is <<"s1", "x">>.
\* The ids used are of the format validate_session_id accepts (no ':').
Sessions == {<<"s1">>, <<"s2">>}
\* the (role, message) pairs the sequential client saves
Said == {<<"user", "m1">>, <<"assistant", "m2">>}

\* f"session:{session_id}:messages" and f"session:{session_id}:meta"
MsgKey(s) == <<"session">> \o s \o <<"messages">>
MetaKey(s) == <<"session">> \o s \o <<"meta">>

\* json.dumps of the message dict, and json.loads followed by the rebuild
\* of the dict in get_conversation_history
json_dumps(d) == <<"role", d.role, "message", d.message, "timestamp", d.timestamp>>
json_loads(j) == [role |-> j[2], message |-> j[4], timestamp |-> j[6]]

message_data(role, message, timestamp) ==
    [role |-> role, message |-> message, timestamp |-> timestamp]

(* The Redis commands the service uses. *)
LLen(db, k) == IF k \in DOMAIN db THEN Len(db[k]) ELSE 0
RPush(db, k, v) ==
    IF k \in DOMAIN db THEN [db EXCEPT ![k] = Append(@, v)] ELSE db @@ (k :> <<v>>)
HSet(db, k, field, v) ==
    IF k \in DOMAIN db THEN [db EXCEPT ![k] = [@ EXCEPT ![field] = v]]
    ELSE db @@ (k :> [f \in {field} |-> v])
HGet(db, k, field) ==
    IF k \in DOMAIN db /\ field \in DOMAIN db[k] THEN Some(db[k][field]) ELSE None
Delete(db, k) == [x \in DOMAIN db \ {k} |-> db[x]]
Exists(db, k) == IF k \in DOMAIN db THEN 1 ELSE 0
\* LRANGE key start stop: negative offsets count from the tail, a start
\* before the head is the head, a stop after the tail is the tail
LRange(db, k, start, stop) ==
    LET list == IF k \in DOMAIN db THEN db[k] ELSE <<>>
        n == Len(list)
        s == IF start < 0 THEN Max(n + start, 0) ELSE start
        e == IF stop < 0 THEN n + stop ELSE Min(stop, n - 1)
    IN  IF s > e \/ s >= n THEN <<>> ELSE SubSeq(list, s + 1, e + 1)
\* SCAN MATCH "session:*:messages"
ScanMessages(db) ==
    {k \in DOMAIN db : Len(k) >= 3 /\ k[1] = "session" /\ k[Len(k)] = "messages"}

\* the outcome of a handler: the keyspace it leaves, its return value and
\* the exception it raises (None when it returns)
Outcome(db, value, raised) == [db |-> db, value |-> value, raised |-> raised]

\* save_message lines 40-47: the message is appended to the session's list
save_message_rpush(db, s, role, message, timestamp) ==
    RPush(db, MsgKey(s), json_dumps(message_data(role, message, timestamp)))
\* save_message line 49: the session's last-activity marker is set
save_message_hset(db, s, timestamp) ==
    HSet(db, MetaKey(s), "last_activity", timestamp)

\* save_message; fail names the Redis command that fails, if any
save_message(db, s, role, message, timestamp, fail) ==
    LET db1 == save_message_rpush(db, s, role, message, timestamp)
        db2 == save_message_hset(db1, s, timestamp)
    IN  CASE fail = "rpush" -> Outcome(db, None, Some("DatabaseException"))
          [] fail = "hset" -> Outcome(db1, None, Some("DatabaseException"))
          [] OTHER ->
               Outcome(db2, Some([session_id |-> s, role |-> role,
                                  message |-> message, timestamp |-> timestamp]), None)

\* get_conversation_history
get_conversation_history(db, s, limit, fail) ==
    LET messages_raw == LRange(db, MsgKey(s), -limit, -1)
        history == [i \in 1..Len(messages_raw) |-> json_loads(messages_raw[i])]
    IN  IF fail = "lrange" THEN Outcome(db, None, Some("DatabaseException"))
        ELSE Outcome(db, Some(history), None)

\* format_history_for_llm
format_history_for_llm(messages) ==
    [i \in 1..Len(messages) |->
        [role |-> messages[i].role, content |-> messages[i].message]]

\* clear_session
clear_session_keeps_meta(db, s, fail) ==
    LET count == LLen(db, MsgKey(s))
        db1 == Delete(db, MsgKey(s))
    IN  CASE fail = "llen" -> Outcome(db, None, Some("DatabaseException"))
          [] fail = "delete_key" -> Outcome(db, None, Some("DatabaseException"))
          [] fail = "delete_meta" -> Outcome(db1, None, Some("DatabaseException"))
          [] OTHER -> Outcome(db1, Some(count), None)
clear_session(db, s, fail) ==
    LET count == LLen(db, MsgKey(s))
        db1 == Delete(db, MsgKey(s))
        db2 == Delete(db1, MetaKey(s))
    IN  CASE fail = "llen" -> Outcome(db, None, Some("DatabaseException"))
          [] fail = "delete_key" -> Outcome(db, None, Some("DatabaseException"))
          [] fail = "delete_meta" -> Outcome(db1, None, Some("DatabaseException"))
          [] OTHER -> Outcome(db2, Some(count), None)

\* get_all_sessions; order is the order in which scan_iter yields the keys
get_all_sessions_no_activity(db, order, fail) ==
    LET entry(key) ==
            LET session_id == <<key[2]>>
            IN  [session_id |-> session_id,
                 message_count |-> LLen(db, key),
                 last_activity |-> None]
    IN  IF fail = "scan" THEN Outcome(db, None, Some("DatabaseException"))
        ELSE Outcome(db, Some([i \in 1..Len(order) |-> entry(order[i])]), None)
get_all_sessions(db, order, fail) ==
    LET entry(key) ==
            LET session_id == <<key[2]>>       \* key.decode().split(":")[1]
            IN  [session_id |-> session_id,
                 message_count |-> LLen(db, key),
                 last_activity |-> HGet(db, MetaKey(session_id), "last_activity")]
    IN  IF fail = "scan" THEN Outcome(db, None, Some("DatabaseException"))
        ELSE Outcome(db, Some([i \in 1..Len(order) |-> entry(order[i])]), None)

\* session_exists
session_exists(db, s) == Exists(db, MsgKey(s)) > 0

\* get_session_message_count
get_session_message_count(db, s) == LLen(db, MsgKey(s))

\* the number of messages stored under all sessions
TotalMessages(db) ==
    LET RECURSIVE Sum(_)
        Sum(K) == IF K = {} THEN 0
                  ELSE LET k == CHOOSE x \in K : TRUE IN Len(db[k]) + Sum(K \ {k})
    IN  Sum(ScanMessages(db))

(* The sequential memory client: one handler per step. *)

Ret(op, session, arg, out) ==
    [op |-> op, session |-> session, arg |-> arg,
     value |-> out.value, raised |-> out.raised]

NoRet == [op |-> "none", session |-> None, arg |-> None,
          value |-> None, raised |-> None]

MemSaveMessage ==
    \E s \in Sessions, said \in Said, t \in {i \in Instants : i >= now},
       fail \in {"none", "rpush", "hset"} :
        LET out == save_message(redis, s, said[1], said[2], t, fail) IN
        /\ TotalMessages(redis) < MaxMsgs
        /\ redis' = out.db
        /\ now' = t
        /\ everHad' = IF fail = "rpush" THEN everHad ELSE everHad \cup {s}
        /\ ret' = Ret("save_message", Some(s), None, out)
        /\ UNCHANGED <<vsVars, askVars, ingVars>>

MemGetHistory ==
    \E s \in Sessions, limit \in 0..MaxLimit, fail \in {"none", "lrange"} :
        LET out == get_conversation_history(redis, s, limit, fail) IN
        /\ redis' = out.db
        /\ ret' = Ret("get_conversation_history", Some(s), Some(limit), out)
        /\ UNCHANGED <<now, everHad, vsVars, askVars, ingVars>>

MemClearSession ==
    \E s \in Sessions, fail \in {"none", "llen", "delete_key", "delete_meta"} :
        LET out == clear_session(redis, s, fail) IN
        /\ redis' = out.db
        /\ ret' = Ret("clear_session", Some(s), None, out)
        /\ UNCHANGED <<now, everHad, vsVars, askVars, ingVars>>

MemGetAllSessions ==
    \E order \in Orders(ScanMessages(redis)), fail \in {"none", "scan"} :
        LET out == get_all_sessions(redis, order, fail) IN
        /\ redis' = out.db
        /\ ret' = Ret("get_all_sessions", None, None, out)
        /\ UNCHANGED <<now, everHad, vsVars, askVars, ingVars>>

EmptyDB == [k \in {} |-> <<>>]

InitMem ==
    /\ redis = EmptyDB
    /\ now = 0
    /\ everHad = {}
    /\ ret = NoRet
    /\ Deployed
    /\ index = {}
    /\ nextId = 0
    /\ pc = <<>>
    /\ fr = <<>>

NextMem == MemSaveMessage \/ MemGetHistory \/ MemClearSession \/ MemGetAllSessions

SpecMem == InitMem /\ [][NextMem]_vars

(* Concurrent save_message calls: each call is three steps, the clock read *)
(* and the two Redis commands, and the clock ticks between any two steps.  *)

\* the processes calling save_message
Writers == {"w1", "w2"}
\* the most calls one writer makes
MaxSaves == 2
\* the message each writer saves
WriterSaid == [w \in Writers |-> IF w = "w1" THEN <<"user", "m1">>
                                               ELSE <<"assistant", "m2">>]

\* the locals of a writer; calls, failures and appended are history: the
\* calls made, the calls that raised, and the messages appended with their
\* session and position
IdleWriter ==
    [session_id |-> <<>>, role |-> "", message |-> "", timestamp |-> 0,
     calls |-> 0, failures |-> 0, appended |-> {}]

\* save_message is called
WriteCall(w) ==
    \E s \in Sessions :
        /\ pc[w] \in {"idle", "returned", "raised"}
        /\ fr[w].calls < MaxSaves
        /\ pc' = [pc EXCEPT ![w] = "stamp"]
        /\ fr' = [fr EXCEPT ![w].session_id = s,
                            ![w].role = WriterSaid[w][1],
                            ![w].message = WriterSaid[w][2],
                            ![w].calls = @ + 1]
        /\ UNCHANGED <<memVars, vsVars, ret, ingVars>>

\* line 38: timestamp = datetime.utcnow().isoformat()
WriteStamp(w) ==
    /\ pc[w] = "stamp"
    /\ pc' = [pc EXCEPT ![w] = "rpush"]
    /\ fr' = [fr EXCEPT ![w].timestamp = now]
    /\ UNCHANGED <<memVars, vsVars, ret, ingVars>>

\* line 47: self.redis.rpush; a Redis error is raised as DatabaseException
WriteRPush(w) ==
    \E ok \in BOOLEAN :
        LET f == fr[w]
            db == save_message_rpush(redis, f.session_id, f.role, f.message,
                                     f.timestamp)
        IN
        /\ pc[w] = "rpush"
        /\ IF ok
           THEN /\ redis' = db
                /\ everHad' = everHad \cup {f.session_id}
                /\ pc' = [pc EXCEPT ![w] = "hset"]
                /\ fr' = [fr EXCEPT ![w].appended =
                             @ \cup {[session_id |-> f.session_id,
                                      position |-> LLen(db, MsgKey(f.session_id)),
                                      timestamp |-> f.timestamp]}]
           ELSE /\ pc' = [pc EXCEPT ![w] = "raised"]
                /\ fr' = [fr EXCEPT ![w].failures = @ + 1]
                /\ UNCHANGED <<redis, everHad>>
        /\ UNCHANGED <<now, vsVars, ret, ingVars>>

\* line 49: self.redis.hset, and the return
WriteHSet(w) ==
    \E ok \in BOOLEAN :
        /\ pc[w] = "hset"
        /\ IF ok
           THEN /\ redis' = save_message_hset(redis, fr[w].session_id, fr[w].timestamp)
                /\ pc' = [pc EXCEPT ![w] = "returned"]
                /\ fr' = fr
           ELSE /\ redis' = redis
                /\ pc' = [pc EXCEPT ![w] = "raised"]
                /\ fr' = [fr EXCEPT ![w].failures = @ + 1]
        /\ UNCHANGED <<now, everHad, vsVars, ret, ingVars>>

\* the clock moves on
Tick ==
    /\ now + 1 \in Instants
    /\ now' = now + 1
    /\ UNCHANGED <<redis, everHad, vsVars, askVars, ret, ingVars>>

InitSave ==
    /\ redis = EmptyDB
    /\ now = 0
    /\ everHad = {}
    /\ ret = NoRet
    /\ Deployed
    /\ index = {}
    /\ nextId = 0
    /\ pc = [w \in Writers |-> "idle"]
    /\ fr = [w \in Writers |-> IdleWriter]

NextSave ==
    \/ \E w \in Writers : WriteCall(w) \/ WriteStamp(w) \/ WriteRPush(w) \/ WriteHSet(w)
    \/ Tick

SpecSave == InitSave /\ [][NextSave]_vars

----------------------------------------------------------------------------
(* Vector store: app/services/vector_store.py                              *)

\* the most chunks passed to one add_documents
MaxChunks == 2
\* the most point ids handed out, which bounds the points of the collection
MaxPoints == MaxChunks
\* the page size of the scroll in delete_by_document_id: limit=10000 in the
\* source, scaled down with the collections of the model so that a document
\* can hold more points than one page
ScrollLimit == 2

DocIds == {"A", "B"}
\* the chunks of a document of n chunks: the first n of these texts
ChunkList == <<"c1", "c2", "c3", "c4">>
Chunks(n) == SubSeq(ChunkList, 1, n)
\* the query vectors of the sequential client, of dimension 2
Queries == {<<1, 0>>, <<1, 1>>}

\* the embedding model: a fixed map from text to vector
Encode(text) ==
    CASE text = "c1" -> <<1, 0>>
      [] text = "c2" -> <<0, 1>>
      [] text = "c3" -> <<1, 1>>
      [] text = "q1" -> <<1, 0>>
      [] text = "q2" -> <<0, 1>>
      [] text = "a" -> <<1, 0>>
      [] text = " a" -> <<0, 1>>
      [] OTHER -> <<1, 1>>

Dot(u, v) == u[1] * v[1] + u[2] * v[2]
\* cosine similarity in thousandths (the collection's distance is COSINE)
Cosine(u, v) ==
    LET p == Dot(u, u) * Dot(v, v) IN
    CASE p = 1 -> 1000 * Dot(u, v)
      [] p = 2 -> 707 * Dot(u, v)
      [] OTHER -> 500 * Dot(u, v)

EmptyDict == [k \in {} |-> ""]
\* dict.get(key, default)
Get(dict, key, default) == IF key \in DOMAIN dict THEN dict[key] ELSE default
\* dict.update(other): the keys of other win
Update(dict, other) ==
    [k \in DOMAIN dict \cup DOMAIN other |->
        IF k \in DOMAIN other THEN other[k] ELSE dict[k]]
\* the truth value of an Optional[Dict] or Optional[List]: None and the
\* empty one are both false, and both are the empty function here
Truthy(x) == DOMAIN x # {}

\* the metadata dicts passed to add_documents (None is EmptyDict): none,
\* the one upload_document passes, and one that names a payload key
Metadatas == {EmptyDict, [filename |-> "f.txt"], [document_id |-> "B"]}

\* sequences over S of length 0..n
SeqsUpTo(S, n) == UNION {[1..k -> S] : k \in 0..n}

\* the outcome of a vector store handler
VSOutcome(idx, nid, value, raised, upserts) ==
    [index |-> idx, nextId |-> nid, value |-> value, raised |-> raised,
     upserts |-> upserts]

\* add_documents lines 93-112: the points built from the zipped lists
BuildPoints(nid, document_id, chunks, embeddings, metadata) ==
    {[id |-> nid + i,
      vector |-> embeddings[i],
      payload |->
        LET payload == [document_id |-> document_id,
                        chunk_index |-> i - 1,
                        chunk_text |-> chunks[i],
                        document_name |->
                            IF Truthy(metadata) THEN Get(metadata, "filename", "")
                            ELSE ""]
        IN  IF Truthy(metadata) THEN Update(payload, metadata) ELSE payload]
     : i \in 1..Min(Len(chunks), Len(embeddings))}

\* add_documents; fail names the client call that fails, if any
add_documents_no_length_check(idx, nid, document_id, chunks, embeddings, metadata, fail) ==
    LET points == BuildPoints(nid, document_id, chunks, embeddings, metadata)
    IN  IF fail = "upsert"
        THEN VSOutcome(idx, nid, None, Some("VectorStoreException"), 1)
        ELSE VSOutcome(idx \cup points, nid + Cardinality(points),
                       Some(Cardinality(points)), None, 1)
add_documents_one_based(idx, nid, document_id, chunks, embeddings, metadata, fail) ==
    LET points == {[p EXCEPT !.payload = [@ EXCEPT !["chunk_index"] = @ + 1]] :
                      p \in BuildPoints(nid, document_id, chunks, embeddings, metadata)}
    IN  IF Len(chunks) # Len(embeddings)
        THEN VSOutcome(idx, nid, None, Some("VectorStoreException"), 0)
        ELSE IF fail = "upsert"
        THEN VSOutcome(idx, nid, None, Some("VectorStoreException"), 1)
        ELSE VSOutcome(idx \cup points, nid + Cardinality(points),
                       Some(Cardinality(points)), None, 1)
add_documents_overwriting(idx, nid, document_id, chunks, embeddings, metadata, fail) ==
    LET points == BuildPoints(nid, document_id, chunks, embeddings, metadata)
        replaced == {p \in idx : \E q \in points :
                        /\ p.payload.document_id = q.payload.document_id
                        /\ p.payload.chunk_index = q.payload.chunk_index}
    IN  IF Len(chunks) # Len(embeddings)
        THEN VSOutcome(idx, nid, None, Some("VectorStoreException"), 0)
        ELSE IF fail = "upsert"
        THEN VSOutcome(idx, nid, None, Some("VectorStoreException"), 1)
        ELSE VSOutcome((idx \ replaced) \cup points, nid + Cardinality(points),
                       Some(Cardinality(points)), None, 1)
add_documents(idx, nid, document_id, chunks, embeddings, metadata, fail) ==
    LET points == BuildPoints(nid, document_id, chunks, embeddings, metadata)
    IN  IF Len(chunks) # Len(embeddings)
        THEN VSOutcome(idx, nid, None, Some("VectorStoreException"), 0)
        ELSE IF fail = "upsert"
        THEN VSOutcome(idx, nid, None, Some("VectorStoreException"), 1)
        ELSE VSOutcome(idx \cup points, nid + Cardinality(points),
                       Some(Cardinality(points)), None, 1)

\* client.search: the eligible points by descending score, cut at limit;
\* points of equal score come in any order
Search(idx, query_vector, limit, query_filter) ==
    LET eligible == {p \in idx :
                        \/ query_filter = None
                        \/ \E i \in 1..Len(query_filter[1]) :
                              Get(p.payload, "document_id", "") = query_filter[1][i]}
        score(p) == Cosine(query_vector, p.vector)
        ranked == {o \in Orders(eligible) :
                      \A i \in 1..(Len(o) - 1) : score(o[i]) >= score(o[i + 1])}
    IN  {[i \in 1..Min(limit, Len(o)) |->
            [id |-> o[i].id, score |-> score(o[i]), payload |-> o[i].payload]]
         : o \in ranked}

\* similarity_search lines 167-178: the result dict of one hit. Every point
\* of the collection was written by add_documents and has the four keys, so
\* the defaults of payload.get are never returned.
SearchResult(hit) ==
    [id |-> hit.id,
     score |-> hit.score,
     document_id |-> Get(hit.payload, "document_id", ""),
     chunk_index |-> Get(hit.payload, "chunk_index", 0),
     chunk_text |-> Get(hit.payload, "chunk_text", ""),
     document_name |-> Get(hit.payload, "document_name", ""),
     payload |-> hit.payload]

\* similarity_search: the set of its possible outcomes. document_ids is an
\* Optional[List[str]]: None and [] are both the empty sequence.
similarity_search_unfiltered(idx, query_embedding, limit, document_ids, fail) ==
    IF fail = "search"
    THEN {VSOutcome(idx, 0, None, Some("VectorStoreException"), 0)}
    ELSE {VSOutcome(idx, 0, Some([i \in 1..Len(hits) |-> SearchResult(hits[i])]), None, 0)
          : hits \in Search(idx, query_embedding, limit, None)}
similarity_search(idx, query_embedding, limit, document_ids, fail) ==
    LET query_filter == IF Truthy(document_ids) THEN Some(document_ids) ELSE None
    IN  IF fail = "search"
        THEN {VSOutcome(idx, 0, None, Some("VectorStoreException"), 0)}
        ELSE {VSOutcome(idx, 0, Some([i \in 1..Len(hits) |-> SearchResult(hits[i])]), None, 0)
              : hits \in Search(idx, query_embedding, limit, query_filter)}

\* client.scroll with a MatchValue filter on document_id: the possible first
\* pages, each of at most limit points
Scroll(idx, document_id, limit) ==
    LET matching == {p \in idx : Get(p.payload, "document_id", "") = document_id}
    IN  {page \in SUBSET matching : Cardinality(page) = Min(limit, Cardinality(matching))}

\* delete_by_document_id: the set of its possible outcomes
delete_by_document_id(idx, document_id, fail) ==
    IF fail = "scroll"
    THEN {VSOutcome(idx, 0, None, Some("VectorStoreException"), 0)}
    ELSE {LET point_ids == {p.id : p \in points} IN
          IF point_ids # {} /\ fail = "delete"
          THEN VSOutcome(idx, 0, None, Some("VectorStoreException"), 0)
          ELSE VSOutcome({p \in idx : p.id \notin point_ids}, 0,
                         Some(Cardinality(point_ids)), None, 0)
          : points \in Scroll(idx, document_id, ScrollLimit)}

(* The sequential vector store client: one handler per step. *)

VSRet(op, arg, out) ==
    [op |-> op, arg |-> arg, value |-> out.value, raised |-> out.raised,
     upserts |-> out.upserts]

\* the embeddings list passed for a chunk list: the chunks' embeddings, cut
\* or padded to m vectors
EmbeddingsFor(chunks, m) ==
    [i \in 1..m |-> IF i <= Len(chunks) THEN Encode(chunks[i]) ELSE <<1, 1>>]

VSAddDocuments ==
    \E document_id \in DocIds, n \in 0..MaxChunks, m \in 0..MaxChunks,
       metadata \in Metadatas, fail \in {"none", "upsert"} :
        LET chunks == Chunks(n)
            embeddings == EmbeddingsFor(chunks, m)
            out == add_documents(index, nextId, document_id, chunks, embeddings,
                                 metadata, fail)
        IN
        /\ m \in {n - 1, n, n + 1}
        /\ n = m => nextId + n <= MaxPoints
        /\ index' = out.index
        /\ nextId' = out.nextId
        /\ ret' = VSRet("add_documents",
                        [document_id |-> document_id, chunks |-> chunks,
                         embeddings |-> embeddings, metadata |-> metadata], out)
        /\ UNCHANGED <<memVars, askVars, ingVars>>

\* supplied tells whether the caller passed a list, which may be [], or None
VSSimilaritySearch ==
    \E query \in Queries, limit \in 1..MaxPoints, supplied \in BOOLEAN,
       document_ids \in SeqsUpTo(DocIds, 1), fail \in {"none", "search"} :
        \E out \in similarity_search(index, query, limit, document_ids, fail) :
            /\ ~supplied => document_ids = <<>>
            /\ ret' = VSRet("similarity_search",
                            [query |-> query, limit |-> limit, supplied |-> supplied,
                             document_ids |-> document_ids], out)
            /\ UNCHANGED <<index, nextId, memVars, askVars, ingVars>>

VSDeleteByDocumentId ==
    \E document_id \in DocIds, fail \in {"none", "scroll", "delete"} :
        \E out \in delete_by_document_id(index, document_id, fail) :
            /\ index' = out.index
            /\ ret' = VSRet("delete_by_document_id", [document_id |-> document_id], out)
            /\ UNCHANGED <<nextId, memVars, askVars, ingVars>>

\* a collection holding nA points of document A and nB points of document B
Holding(nA, nB) ==
    LET a == add_documents({}, 0, "A", Chunks(nA), EmbeddingsFor(Chunks(nA), nA),
                           EmptyDict, "none")
    IN  add_documents(a.index, a.nextId, "B", Chunks(nB), EmbeddingsFor(Chunks(nB), nB),
                      EmptyDict, "none")

\* the vector store client deletes and searches on a collection in which
\* document A holds up to one point more than a scroll page
InitDel ==
    /\ \E nA \in 0..(ScrollLimit + 1), nB \in 0..1 :
          /\ index = Holding(nA, nB).index
          /\ nextId = Holding(nA, nB).nextId
    /\ redis = EmptyDB
    /\ now = 0
    /\ everHad = {}
    /\ ret = NoRet
    /\ Deployed
    /\ pc = <<>>
    /\ fr = <<>>

NextDel == VSDeleteByDocumentId \/ VSSimilaritySearch

SpecDel == InitDel /\ [][NextDel]_vars

NextVS == VSAddDocuments \/ VSSimilaritySearch \/ VSDeleteByDocumentId

SpecVS == InitMem /\ [][NextVS]_vars

----------------------------------------------------------------------------
(* Chunker: app/services/document_processor.py                             *)

\* the longest text chunked
MaxLen == 4
\* the largest chunk size, of an instance or passed to a call
MaxSize == 3
\* the chunk list of a call is tracked up to this many chunks, more than any
\* call that leaves its loop appends
MaxIter == MaxLen + 1
\* start is tracked down to this value; from there on every slice is empty
StartFloor == 0 - (MaxLen + MaxSize)

\* a text is the sequence of its characters
Chars == {"a", " "}
Texts == UNION {[1..n -> Chars] : n \in 0..MaxLen}

\* str.isspace of a character
IsSpace(ch) == ch = " "

\* str.strip: leading and trailing whitespace removed
RECURSIVE lstrip(_)
lstrip(s) == IF s # <<>> /\ IsSpace(s[1]) THEN lstrip(Tail(s)) ELSE s
RECURSIVE rstrip(_)
rstrip(s) ==
    IF s # <<>> /\ IsSpace(s[Len(s)]) THEN rstrip(SubSeq(s, 1, Len(s) - 1)) ELSE s
strip(s) == rstrip(lstrip(s))

\* Python's s[start:end]: a negative offset counts from the end, and both
\* offsets are cut to the string
PySlice(s, start, end) ==
    LET n == Len(s)
        a == Max(0, Min(n, IF start < 0 THEN start + n ELSE start))
        b == Max(0, Min(n, IF end < 0 THEN end + n ELSE end))
    IN  IF a >= b THEN <<>> ELSE SubSeq(s, a + 1, b)

\* Python's `x or default` for an Optional[int]: None and 0 are both false
OrDefault(x, default) == IF x = None \/ x = Some(0) THEN default ELSE x[1]

\* the DocumentProcessor instances: __init__(chunk_size, chunk_overlap)
Processors == {[chunk_size |-> MaxSize, chunk_overlap |-> o] : o \in {0, 1}}

\* chunk_text_fixed lines 108-115: the locals before the loop
chunk_enter(self, text, chunk_size, overlap) ==
    [self |-> self, text |-> text,
     arg_chunk_size |-> chunk_size, arg_overlap |-> overlap,
     chunk_size |-> OrDefault(chunk_size, self.chunk_size),
     overlap |-> OrDefault(overlap, self.chunk_overlap),
     chunks |-> <<>>, start |-> 0, result |-> None]

\* chunk_text_fixed lines 118-121: one iteration of the loop
chunk_iterate(f) ==
    LET end == f.start + f.chunk_size
        chunk == PySlice(f.text, f.start, end)
    IN  [f EXCEPT !.chunks = IF Len(@) < MaxIter THEN Append(@, strip(chunk)) ELSE @,
                  !.start = Max(end - f.overlap, StartFloor)]

\* chunk_text_fixed, for the calls whose loop ends
RECURSIVE chunk_loop(_)
chunk_loop(f) == IF f.start < Len(f.text) THEN chunk_loop(chunk_iterate(f)) ELSE f.chunks
chunk_text_fixed(self, text, chunk_size, overlap) ==
    LET f == chunk_enter(self, text, chunk_size, overlap)
    IN  IF Len(text) <= f.chunk_size THEN <<text>> ELSE chunk_loop(f)

(* One call of chunk_text_fixed, a step per loop test and per loop body. *)

ChunkCalls == {"ck"}
ChunkSizeArgs == {None} \cup {Some(s) : s \in 1..MaxSize}
OverlapArgs == {None} \cup {Some(o) : o \in 0..(MaxSize - 1)}

\* the call is made: lines 108-115
ChunkEnter(c) ==
    \E text \in Texts, chunk_size \in ChunkSizeArgs, overlap \in OverlapArgs :
        LET f == chunk_enter(fr[c].self, text, chunk_size, overlap) IN
        /\ pc[c] = "idle"
        /\ IF Len(text) <= f.chunk_size
           THEN /\ pc' = [pc EXCEPT ![c] = "returned"]
                /\ fr' = [fr EXCEPT ![c] = [f EXCEPT !.result = Some(<<text>>)]]
           ELSE /\ pc' = [pc EXCEPT ![c] = "loop"]
                /\ fr' = [fr EXCEPT ![c] = f]
        /\ UNCHANGED <<memVars, vsVars, ret, ingVars>>

\* the loop test, line 117: the body is entered, or the loop is left and the
\* chunks are returned (lines 123-124)
ChunkTest(c) ==
    /\ pc[c] = "loop"
    /\ IF fr[c].start < Len(fr[c].text)
       THEN /\ pc' = [pc EXCEPT ![c] = "body"]
            /\ fr' = fr
       ELSE /\ pc' = [pc EXCEPT ![c] = "returned"]
            /\ fr' = [fr EXCEPT ![c].result = Some(fr[c].chunks)]
    /\ UNCHANGED <<memVars, vsVars, ret, ingVars>>

\* the loop body: lines 118-121
ChunkBody(c) ==
    /\ pc[c] = "body"
    /\ pc' = [pc EXCEPT ![c] = "loop"]
    /\ fr' = [fr EXCEPT ![c] = chunk_iterate(fr[c])]
    /\ UNCHANGED <<memVars, vsVars, ret, ingVars>>

InitChunk ==
    /\ \E self \in Processors :
          fr = [c \in ChunkCalls |-> chunk_enter(self, <<>>, None, None)]
    /\ pc = [c \in ChunkCalls |-> "idle"]
    /\ redis = EmptyDB
    /\ now = 0
    /\ everHad = {}
    /\ ret = NoRet
    /\ Deployed
    /\ index = {}
    /\ nextId = 0

NextChunk == \E c \in ChunkCalls : ChunkEnter(c) \/ ChunkTest(c) \/ ChunkBody(c)

\* a call that has been made keeps running
SpecChunk == InitChunk /\ [][NextChunk]_vars /\ WF_vars(NextChunk)

----------------------------------------------------------------------------
(* Embedding provider: app/services/embedding_service.py                   *)

\* the most texts passed to one generate_embeddings_batch
MaxBatch == 3

\* the string of a sequence of characters
RECURSIVE Join(_)
Join(s) == IF s = <<>> THEN "" ELSE s[1] \o Join(Tail(s))

\* the texts of the batches the client passes
BatchTexts == {<<>>, <<" ">>, <<"a">>, <<" ", "a">>}

\* the truth value of `text and text.strip()`
NonBlank(text) == text # <<>> /\ strip(text) # <<>>

\* generate_embeddings_batch; fail names the call that fails, if any
generate_embeddings_batch_keeps_blanks(texts, fail) ==
    IF texts = <<>>
    THEN [value |-> None, raised |-> Some("EmbeddingGenerationException")]
    ELSE IF SelectSeq(texts, NonBlank) = <<>>
    THEN [value |-> None, raised |-> Some("EmbeddingGenerationException")]
    ELSE IF fail = "encode"
    THEN [value |-> None, raised |-> Some("EmbeddingGenerationException")]
    ELSE [value |-> Some([i \in 1..Len(texts) |-> Encode(Join(texts[i]))]),
          raised |-> None]
generate_embeddings_batch(texts, fail) ==
    LET valid_texts == SelectSeq(texts, NonBlank) IN
    IF texts = <<>>
    THEN [value |-> None, raised |-> Some("EmbeddingGenerationException")]
    ELSE IF valid_texts = <<>>
    THEN [value |-> None, raised |-> Some("EmbeddingGenerationException")]
    ELSE IF fail = "encode"
    THEN [value |-> None, raised |-> Some("EmbeddingGenerationException")]
    ELSE [value |-> Some([i \in 1..Len(valid_texts) |-> Encode(Join(valid_texts[i]))]),
          raised |-> None]

(* The sequential embedding client. *)

EmbGenerateBatch ==
    \E texts \in SeqsUpTo(BatchTexts, MaxBatch), fail \in {"none", "encode"} :
        LET out == generate_embeddings_batch(texts, fail) IN
        /\ ret' = [op |-> "generate_embeddings_batch", arg |-> texts, fail |-> fail,
                   value |-> out.value, raised |-> out.raised]
        /\ UNCHANGED <<memVars, vsVars, askVars, ingVars>>

NextEmb == EmbGenerateBatch

SpecEmb == InitMem /\ [][NextEmb]_vars

----------------------------------------------------------------------------
(* Ingestion: app/api/v1/ingestion.py, with app/database/crud.py and the   *)
(* vector store's initialisation in app/core/dependencies.py               *)

\* the upload requests
Uploads == {"u1", "u2"}
\* str(uuid.uuid4()): a fresh document id per upload
DocumentIdOf(u) == IF u = "u1" THEN "A" ELSE "B"
\* the texts of the uploaded .txt files
FileTexts == {<<>>, <<"a">>, <<"a", " ", " ", "a">>, <<"a", "a", "a", "a">>}
\* the chunking_strategy form field; "recursive" runs the langchain splitter,
\* which is no code of this repository, so the uploads chunk with "fixed"
Strategies == {"fixed", "other"}
\* settings.chunk_size and settings.chunk_overlap, which get_document_processor
\* passes to DocumentProcessor
Settings == Processors \cup {[chunk_size |-> 1, chunk_overlap |-> 0]}
\* the dimensions of a collection that exists before the service starts
ForeignDims == {EmbeddingDim, EmbeddingDim + 1}

\* normalize_whitespace: every run of whitespace becomes one space
RECURSIVE normalize_whitespace(_)
normalize_whitespace(text) ==
    IF text = <<>> THEN <<>>
    ELSE IF Len(text) >= 2 /\ IsSpace(text[1]) /\ IsSpace(text[2])
    THEN normalize_whitespace(Tail(text))
    ELSE <<text[1]>> \o normalize_whitespace(Tail(text))
\* clean_text; the texts of the model hold no control characters
clean_text(text) == IF text = <<>> THEN <<>> ELSE strip(normalize_whitespace(text))

\* process_document on a .txt file; fail names the call that fails, if any
process_document(self, file_text, strategy, fail) ==
    IF fail = "extract"
    THEN [chunks |-> <<>>, total_chunks |-> 0, raised |-> Some("TextExtractionException")]
    ELSE LET text == clean_text(file_text) IN
         IF strategy = "fixed"
         THEN LET chunks == chunk_text_fixed(self, text, None, None) IN
              [chunks |-> chunks, total_chunks |-> Len(chunks), raised |-> None]
         ELSE [chunks |-> <<>>, total_chunks |-> 0,
               raised |-> Some("ChunkingFailedException")]

\* crud.create_document: the row is committed, or the session is rolled back
create_document(db, document_data, fail) ==
    IF fail = "commit"
    THEN [sql |-> db, raised |-> Some("DatabaseException")]
    ELSE [sql |-> [db EXCEPT !.documents = @ \cup {document_data}], raised |-> None]

\* crud.create_chunks: all rows are committed at once, or none is
create_chunks(db, document_id, chunks_data, fail) ==
    IF fail = "commit"
    THEN [sql |-> db, raised |-> Some("DatabaseException")]
    ELSE [sql |-> [db EXCEPT !.document_chunks = @ \cup
                      {[document_id |-> document_id,
                        chunk_index |-> chunks_data[i].chunk_index,
                        chunk_text |-> chunks_data[i].chunk_text]
                       : i \in 1..Len(chunks_data)}],
          raised |-> None]

\* _ensure_collection_exists: the collection is looked up by its name only
ensure_collection_exists(coll, vector_size, fail) ==
    IF fail = "get_collections"
    THEN [collection |-> coll, raised |-> Some("VectorStoreException")]
    ELSE IF coll = None
    THEN IF fail = "create_collection"
         THEN [collection |-> coll, raised |-> Some("VectorStoreException")]
         ELSE [collection |-> Some(vector_size), raised |-> None]
    ELSE [collection |-> coll, raised |-> None]

\* get_vector_store: QdrantVectorStore(...) on the first use, the global after
get_vector_store(st, coll, fail) ==
    IF st # None
    THEN [store |-> st, collection |-> coll, raised |-> None]
    ELSE LET e == ensure_collection_exists(coll, EmbeddingDim, fail) IN
         IF e.raised # None
         THEN [store |-> None, collection |-> coll, raised |-> e.raised]
         ELSE [store |-> Some([vector_size |-> EmbeddingDim]),
               collection |-> e.collection, raised |-> None]

\* Qdrant takes an upsert only if every vector has the collection's size
Upsertable(coll, embeddings) ==
    \A i \in 1..Len(embeddings) : coll = Some(Len(embeddings[i]))

\* the strings of a list of texts
Strings(texts) == [i \in 1..Len(texts) |-> Join(texts[i])]

\* the locals of an upload
IdleUpload(self) ==
    [self |-> self, file_text |-> <<>>, chunking_strategy |-> "", document_id |-> "",
     file_saved |-> FALSE, chunks |-> <<>>, total_chunks |-> 0, embeddings |-> <<>>,
     raised |-> None, response |-> None]

\* the dependencies are resolved and the file is saved: lines 31-61
UploadRequest(u) ==
    \E file_text \in FileTexts, chunking_strategy \in Strategies,
       fail \in {"none", "get_collections", "create_collection"} :
        LET out == get_vector_store(store, collection, fail) IN
        /\ pc[u] = "idle"
        /\ store' = out.store
        /\ collection' = out.collection
        /\ IF out.raised # None
           THEN /\ pc' = [pc EXCEPT ![u] = "raised"]
                /\ fr' = [fr EXCEPT ![u].raised = out.raised]
           ELSE /\ pc' = [pc EXCEPT ![u] = "process_document"]
                /\ fr' = [fr EXCEPT ![u].file_text = file_text,
                                    ![u].chunking_strategy = chunking_strategy,
                                    ![u].document_id = DocumentIdOf(u),
                                    ![u].file_saved = TRUE]
        /\ UNCHANGED <<memVars, vsVars, ret, sql, provider>>

\* the except clause of lines 102-105: the file is deleted, nothing else
UploadFailed(u, exception) ==
    /\ pc' = [pc EXCEPT ![u] = "raised"]
    /\ fr' = [fr EXCEPT ![u].raised = exception, ![u].file_saved = FALSE]

\* line 64
UploadProcessDocument(u) ==
    \E fail \in {"none", "extract"} :
        LET out == process_document(fr[u].self, fr[u].file_text,
                                    fr[u].chunking_strategy, fail) IN
        /\ pc[u] = "process_document"
        /\ IF out.raised # None
           THEN UploadFailed(u, out.raised)
           ELSE /\ pc' = [pc EXCEPT ![u] = "generate_embeddings_batch"]
                /\ fr' = [fr EXCEPT ![u].chunks = out.chunks,
                                    ![u].total_chunks = out.total_chunks]
        /\ UNCHANGED <<memVars, vsVars, ret, ingVars>>

\* line 66
UploadGenerateEmbeddings(u) ==
    \E fail \in {"none", "encode"} :
        LET out == generate_embeddings_batch(fr[u].chunks, fail) IN
        /\ pc[u] = "generate_embeddings_batch"
        /\ IF out.raised # None
           THEN UploadFailed(u, out.raised)
           ELSE /\ pc' = [pc EXCEPT ![u] = "create_document"]
                /\ fr' = [fr EXCEPT ![u].embeddings = out.value[1]]
        /\ UNCHANGED <<memVars, vsVars, ret, ingVars>>

\* lines 68-76
UploadCreateDocument(u) ==
    \E fail \in {"none", "commit"} :
        LET document_data == [document_id |-> fr[u].document_id,
                              filename |-> "f.txt",
                              chunk_count |-> fr[u].total_chunks,
                              chunking_strategy |-> fr[u].chunking_strategy]
            out == create_document(sql, document_data, fail)
        IN
        /\ pc[u] = "create_document"
        /\ sql' = out.sql
        /\ IF out.raised # None
           THEN UploadFailed(u, out.raised)
           ELSE /\ pc' = [pc EXCEPT ![u] = "create_chunks"]
                /\ fr' = fr
        /\ UNCHANGED <<memVars, vsVars, ret, collection, store, provider>>

\* lines 78-82
UploadCreateChunks(u) ==
    \E fail \in {"none", "commit"} :
        LET chunks == Strings(fr[u].chunks)
            chunks_data == [i \in 1..Len(chunks) |->
                               [chunk_index |-> i - 1, chunk_text |-> chunks[i]]]
            out == create_chunks(sql, fr[u].document_id, chunks_data, fail)
        IN
        /\ pc[u] = "create_chunks"
        /\ sql' = out.sql
        /\ IF out.raised # None
           THEN UploadFailed(u, out.raised)
           ELSE /\ pc' = [pc EXCEPT ![u] = "add_documents"]
                /\ fr' = fr
        /\ UNCHANGED <<memVars, vsVars, ret, collection, store, provider>>

\* lines 84-100: the vectors are stored and the response is returned
UploadAddDocuments(u) ==
    \E fail \in {"none", "upsert"} :
        LET out == add_documents(index, nextId, fr[u].document_id,
                                 Strings(fr[u].chunks), fr[u].embeddings,
                                 [filename |-> "f.txt"],
                                 IF Upsertable(collection, fr[u].embeddings)
                                 THEN fail ELSE "upsert")
        IN
        /\ pc[u] = "add_documents"
        /\ index' = out.index
        /\ nextId' = out.nextId
        /\ IF out.raised # None
           THEN UploadFailed(u, out.raised)
           ELSE /\ pc' = [pc EXCEPT ![u] = "responded"]
                /\ fr' = [fr EXCEPT ![u].response =
                             Some([document_id |-> fr[u].document_id,
                                   chunks_created |-> fr[u].total_chunks,
                                   strategy_used |-> fr[u].chunking_strategy])]
        /\ UNCHANGED <<memVars, ret, ingVars>>

\* the delete requests
Deleters == {"d1"}

\* crud.get_document_by_id: the first row with the id, None if there is none
get_document_by_id(db, document_id) ==
    LET rows == {d \in db.documents : d.document_id = document_id} IN
    IF rows = {} THEN None ELSE Some(CHOOSE d \in rows : TRUE)

\* crud.delete_document: the row and, by the relationship's cascade, its
\* chunk rows are deleted and committed, or the session is rolled back
delete_document(db, document_id, fail) ==
    IF get_document_by_id(db, document_id) = None
    THEN [sql |-> db, raised |-> Some("DocumentNotFoundException")]
    ELSE IF fail = "commit"
    THEN [sql |-> db, raised |-> Some("DatabaseException")]
    ELSE [sql |-> [documents |-> {d \in db.documents : d.document_id # document_id},
                   document_chunks |->
                       {c \in db.document_chunks : c.document_id # document_id}],
          raised |-> None]

\* the locals of a delete request; before is history: what the stores held
\* of the document when the request was made, and settled tells whether
\* the upload of the document had ended by then
IdleDelete ==
    [document_id |-> "", raised |-> None, response |-> None, settled |-> FALSE,
     before |-> [documents |-> {}, document_chunks |-> {}, vectors |-> {}]]

DeleteFailed(d, exception) ==
    /\ pc' = [pc EXCEPT ![d] = "raised"]
    /\ fr' = [fr EXCEPT ![d].raised = exception]

\* the dependencies are resolved: verify_document_exists raises
\* DocumentNotFoundException for an id without a document row; the vector
\* store is the one the uploads initialised
DeleteRequest(d) ==
    \E u \in Uploads :
        LET document_id == DocumentIdOf(u)
            f == [fr[d] EXCEPT
                    !.document_id = document_id,
                    !.settled = pc[u] \in {"responded", "raised"},
                    !.before =
                        [documents |->
                            {r \in sql.documents : r.document_id = document_id},
                         document_chunks |->
                            {c \in sql.document_chunks : c.document_id = document_id},
                         vectors |->
                            {p \in index : Get(p.payload, "document_id", "") = document_id}]]
        IN
        /\ pc[d] = "idle"
        /\ store # None
        /\ IF get_document_by_id(sql, document_id) = None
           THEN /\ pc' = [pc EXCEPT ![d] = "raised"]
                /\ fr' = [fr EXCEPT ![d] =
                             [f EXCEPT !.raised = Some("DocumentNotFoundException")]]
           ELSE /\ pc' = [pc EXCEPT ![d] = "delete_by_document_id"]
                /\ fr' = [fr EXCEPT ![d] = f]
        /\ UNCHANGED <<memVars, vsVars, ret, ingVars>>

\* delete_document line 196
DeleteVectors(d) ==
    \E fail \in {"none", "scroll", "delete"} :
        \E out \in delete_by_document_id(index, fr[d].document_id, fail) :
            /\ pc[d] = "delete_by_document_id"
            /\ index' = out.index
            /\ IF out.raised # None
               THEN DeleteFailed(d, out.raised)
               ELSE /\ pc' = [pc EXCEPT ![d] = "delete_document"]
                    /\ fr' = fr
            /\ UNCHANGED <<nextId, memVars, ret, ingVars>>

\* delete_document lines 198-205: the rows are deleted, then the file, and
\* the response is returned
DeleteRows(d) ==
    \E fail \in {"none", "commit"} :
        LET out == delete_document(sql, fr[d].document_id, fail) IN
        /\ pc[d] = "delete_document"
        /\ sql' = out.sql
        /\ IF out.raised # None
           THEN DeleteFailed(d, out.raised)
           ELSE /\ pc' = [pc EXCEPT ![d] = "responded"]
                /\ fr' = [fr EXCEPT ![d].response = Some([success |-> TRUE])]
        /\ UNCHANGED <<memVars, vsVars, ret, collection, store, provider>>

\* the service starts with an empty database, on a Qdrant server on which
\* the collection is absent or was created before, with some dimension
InitIngest ==
    /\ sql = EmptySQL
    /\ collection \in {None} \cup {Some(d) : d \in ForeignDims}
    /\ store = None
    /\ provider = LoadedProvider
    /\ index = {}
    /\ nextId = 0
    /\ \E self \in Settings :
          fr = [q \in Uploads \cup Deleters |->
                   IF q \in Uploads THEN IdleUpload(self) ELSE IdleDelete]
    /\ pc = [q \in Uploads \cup Deleters |-> "idle"]
    /\ redis = EmptyDB
    /\ now = 0
    /\ everHad = {}
    /\ ret = NoRet

NextIngest ==
    \/ \E u \in Uploads :
          \/ UploadRequest(u)
          \/ UploadProcessDocument(u)
          \/ UploadGenerateEmbeddings(u)
          \/ UploadCreateDocument(u)
          \/ UploadCreateChunks(u)
          \/ UploadAddDocuments(u)
    \/ \E d \in Deleters : DeleteRequest(d) \/ DeleteVectors(d) \/ DeleteRows(d)

SpecIngest == InitIngest /\ [][NextIngest]_vars

----------------------------------------------------------------------------
(* The first requests of a process: app/core/dependencies.py resolves      *)
(* get_embedding_service and get_vector_store for each request in a worker *)
(* thread, so the statements of two requests interleave.                   *)

\* the requests
Requests == {"r1", "r2"}

\* an EmbeddingService instance __new__ has allocated and not initialized:
\* _model is the class attribute None, _embedding_dim is not set
Uninitialized == [model |-> None, embedding_dim |-> None]
\* the provider of a process that has served no request
NoProvider == [service |-> None, instance |-> None, objects |-> <<>>, loads |-> 0]

\* the locals of a request; loaded and constructed are history: the request
\* loaded the model, and constructed a QdrantVectorStore
IdleRequest ==
    [self |-> None, embedding_service |-> None, embedding_dim |-> None,
     vector_store |-> None, loaded |-> FALSE, constructed |-> FALSE,
     raised |-> None]

RequestRaises(r, exception) ==
    /\ pc' = [pc EXCEPT ![r] = "raised"]
    /\ fr' = [fr EXCEPT ![r].raised = Some(exception)]

\* get_embedding_service line 57: if _embedding_service is None
GetEmbeddingService(r) ==
    /\ pc[r] = "idle"
    /\ IF provider.service = None
       THEN /\ pc' = [pc EXCEPT ![r] = "__new__"]
            /\ fr' = fr
       ELSE /\ pc' = [pc EXCEPT ![r] = "get_vector_store"]
            /\ fr' = [fr EXCEPT ![r].embedding_service = provider.service]
    /\ UNCHANGED <<memVars, vsVars, ret, sql, collection, store, provider>>

\* EmbeddingService.__new__ line 19: if cls._instance is None
NewTest(r) ==
    /\ pc[r] = "__new__"
    /\ pc' = [pc EXCEPT ![r] = IF provider.instance = None THEN "allocate"
                                                           ELSE "return"]
    /\ UNCHANGED <<memVars, vsVars, ret, fr, sql, collection, store, provider>>

\* __new__ line 20: cls._instance = super().__new__(cls)
NewAllocate(r) ==
    /\ pc[r] = "allocate"
    /\ provider' = [provider EXCEPT !.objects = Append(@, Uninitialized),
                                    !.instance = Some(Len(provider.objects) + 1)]
    /\ pc' = [pc EXCEPT ![r] = "_initialize"]
    /\ UNCHANGED <<memVars, vsVars, ret, fr, sql, collection, store>>

\* __new__ line 21: cls._instance._initialize(model_name) is called on the
\* instance the class attribute holds now
InitializeEnter(r) ==
    /\ pc[r] = "_initialize"
    /\ fr' = [fr EXCEPT ![r].self = provider.instance]
    /\ pc' = [pc EXCEPT ![r] = "load"]
    /\ UNCHANGED <<memVars, vsVars, ret, sql, collection, store, provider>>

\* _initialize lines 31-39: the model is loaded and the fields are set, or
\* EmbeddingGenerationException is raised
InitializeLoad(r) ==
    \E ok \in BOOLEAN :
        /\ pc[r] = "load"
        /\ IF ok
           THEN /\ provider' = [provider EXCEPT !.objects[fr[r].self[1]] = Initialized,
                                                !.loads = @ + 1]
                /\ pc' = [pc EXCEPT ![r] = "return"]
                /\ fr' = [fr EXCEPT ![r].loaded = TRUE]
           ELSE /\ provider' = provider
                /\ RequestRaises(r, "EmbeddingGenerationException")
        /\ UNCHANGED <<memVars, vsVars, ret, sql, collection, store>>

\* __new__ line 22 and get_embedding_service lines 60-66: cls._instance is
\* returned, stored in the global, and the global is returned
NewReturn(r) ==
    /\ pc[r] = "return"
    /\ provider' = [provider EXCEPT !.service = provider.instance]
    /\ fr' = [fr EXCEPT ![r].embedding_service = provider.instance]
    /\ pc' = [pc EXCEPT ![r] = "get_vector_store"]
    /\ UNCHANGED <<memVars, vsVars, ret, sql, collection, store>>

\* get_vector_store lines 76-79: if _vector_store is None, the dimension is
\* read; get_embedding_dimension raises AttributeError on an instance that
\* was not initialized
GetVectorStore(r) ==
    LET service == provider.objects[fr[r].embedding_service[1]] IN
    /\ pc[r] = "get_vector_store"
    /\ IF store # None
       THEN /\ pc' = [pc EXCEPT ![r] = "resolved"]
            /\ fr' = [fr EXCEPT ![r].vector_store = store]
       ELSE IF service.embedding_dim = None
       THEN RequestRaises(r, "AttributeError")
       ELSE /\ pc' = [pc EXCEPT ![r] = "get_collections"]
            /\ fr' = [fr EXCEPT ![r].embedding_dim = service.embedding_dim]
    /\ UNCHANGED <<memVars, vsVars, ret, sql, collection, store, provider>>

\* _ensure_collection_exists lines 38-41: the collection is looked up
EnsureGetCollections(r) ==
    \E ok \in BOOLEAN :
        /\ pc[r] = "get_collections"
        /\ IF ~ok
           THEN RequestRaises(r, "VectorStoreException")
           ELSE /\ pc' = [pc EXCEPT ![r] = IF collection = None
                                          THEN "create_collection" ELSE "construct"]
                /\ fr' = fr
        /\ UNCHANGED <<memVars, vsVars, ret, sql, collection, store, provider>>

\* create_collection lines 54-60: Qdrant refuses to create a collection
\* that exists
EnsureCreateCollection(r) ==
    \E ok \in BOOLEAN :
        /\ pc[r] = "create_collection"
        /\ IF ok /\ collection = None
           THEN /\ collection' = fr[r].embedding_dim
                /\ pc' = [pc EXCEPT ![r] = "construct"]
                /\ fr' = fr
           ELSE /\ collection' = collection
                /\ RequestRaises(r, "VectorStoreException")
        /\ UNCHANGED <<memVars, vsVars, ret, sql, store, provider>>

\* get_vector_store lines 81-91: the instance is stored in the global and
\* the global is returned
ConstructVectorStore(r) ==
    LET instance == Some([vector_size |-> fr[r].embedding_dim[1], id |-> r]) IN
    /\ pc[r] = "construct"
    /\ store' = instance
    /\ pc' = [pc EXCEPT ![r] = "resolved"]
    /\ fr' = [fr EXCEPT ![r].vector_store = instance, ![r].constructed = TRUE]
    /\ UNCHANGED <<memVars, vsVars, ret, sql, collection, provider>>

InitBoot ==
    /\ provider = NoProvider
    /\ store = None
    /\ collection \in {None, Some(EmbeddingDim)}
    /\ sql = EmptySQL
    /\ pc = [r \in Requests |-> "idle"]
    /\ fr = [r \in Requests |-> IdleRequest]
    /\ redis = EmptyDB
    /\ now = 0
    /\ everHad = {}
    /\ ret = NoRet
    /\ index = {}
    /\ nextId = 0

NextBoot ==
    \E r \in Requests :
        \/ GetEmbeddingService(r) \/ NewTest(r) \/ NewAllocate(r)
        \/ InitializeEnter(r) \/ InitializeLoad(r) \/ NewReturn(r)
        \/ GetVectorStore(r) \/ EnsureGetCollections(r)
        \/ EnsureCreateCollection(r) \/ ConstructVectorStore(r)

SpecBoot == InitBoot /\ [][NextBoot]_vars

----------------------------------------------------------------------------
(* Orchestrator: app/services/rag_service.py                               *)

\* the most messages a session holds when the ask calls start
MaxHist == 6
\* top_k of ask
DefaultTopK == 5
\* the limit ask passes to get_conversation_history
HistoryWindow == 10
\* the most history turns build_prompt puts into the prompt
PromptHistory == 5

Callers == {"k1", "k2"}
\* the question each caller asks
AskQuestion == [c \in Callers |-> IF c = "k1" THEN "q1" ELSE "q2"]
\* the sizes of the list session s1 holds when the ask calls start
HistSizes == {0, MaxHist}
\* the sessions and the document filters each caller may pass
AskSessions == [c \in Callers |-> IF c = "k1" THEN {<<"s1">>} ELSE Sessions]
AskFilters == [c \in Callers |-> IF c = "k1" THEN {<<>>, <<"A">>} ELSE {<<>>}]
Answers == {"a1"}
\* the texts of the messages a session holds when the ask calls start
HistTexts == <<"h1", "h2", "h3", "h4", "h5", "h6", "h7", "h8">>

\* Python's seq[:-1] and seq[-k:]
AllButLast(seq) == SubSeq(seq, 1, Len(seq) - 1)
PyTail(seq, k) == IF k = 0 THEN seq ELSE LastK(seq, k)

\* f"{score:.2f}": a score in thousandths rounded to hundredths
Round2(score) == (score + 5) \div 10

NoContext == "No relevant context found."
SystemMessage == [role |-> "system", content |-> [text |-> "system_message"]]

\* encode_query: the embedding scaled to norm 1; cosine scores do not depend
\* on the scale, so the vector stands for its direction
encode_query(question) == Encode(question)

\* retrieve_context: the chunk lists it can return and the number of
\* searches made; fail names the call that raises, if any
retrieve_context(idx, question, document_ids, top_k, fail) ==
    IF fail = "encode" THEN {[chunks |-> <<>>, searches |-> 0]}
    ELSE {[chunks |-> IF out.raised = None THEN out.value[1] ELSE <<>>,
           searches |-> 1]
          : out \in similarity_search(idx, encode_query(question), top_k,
                                      document_ids, fail)}

\* _format_context: the sentinel, or one part per chunk
_format_context(chunks) ==
    IF chunks = <<>> THEN [sentinel |-> NoContext, parts |-> <<>>]
    ELSE [sentinel |-> "",
          parts |-> [i \in 1..Len(chunks) |->
                        [source |-> i,
                         document_name |-> chunks[i].document_name,
                         relevance |-> Round2(chunks[i].score),
                         text |-> chunks[i].chunk_text]]]

\* build_prompt
build_prompt_all_history(question, context_chunks, conversation_history) ==
    <<SystemMessage>> \o conversation_history
    \o <<[role |-> "user",
          content |-> [context |-> _format_context(context_chunks),
                       question |-> question]]>>
build_prompt(question, context_chunks, conversation_history) ==
    LET history ==
            IF conversation_history # <<>>
            THEN PyTail(conversation_history,
                        Min(Len(conversation_history), PromptHistory))
            ELSE <<>>
    IN  <<SystemMessage>> \o history
        \o <<[role |-> "user",
              content |-> [context |-> _format_context(context_chunks),
                           question |-> question]]>>

\* ask lines 206-207: the turns format_history_for_llm is given
history_turns(conversation_history) ==
    [i \in 1..Len(AllButLast(conversation_history)) |->
        [role |-> conversation_history[i].role,
         content |-> [text |-> conversation_history[i].message]]]

\* format_sources
format_sources_still_indexed(chunks) ==
    LET live == SelectSeq(chunks, LAMBDA ch : \E p \in index : p.id = ch.id)
    IN  [i \in 1..Len(live) |->
            [text |-> live[i].chunk_text,
             document_id |-> live[i].document_id,
             document_name |-> live[i].document_name,
             chunk_index |-> live[i].chunk_index,
             similarity_score |-> live[i].score]]
format_sources(chunks) ==
    [i \in 1..Len(chunks) |->
        [text |-> chunks[i].chunk_text,
         document_id |-> chunks[i].document_id,
         document_name |-> chunks[i].document_name,
         chunk_index |-> chunks[i].chunk_index,
         similarity_score |-> chunks[i].score]]

\* ask: the step that follows a step, given whether the step succeeded
ask_next_retrieval_fatal(step, ok) ==
    CASE step = "save_user" -> IF ok THEN "retrieve" ELSE "raised"
      [] step = "retrieve" -> IF ok THEN "build" ELSE "raised"
      [] step = "build" -> IF ok THEN "generate" ELSE "raised"
      [] step = "generate" -> IF ok THEN "save_assistant" ELSE "raised"
      [] step = "save_assistant" -> IF ok THEN "respond" ELSE "raised"
      [] OTHER -> "responded"
ask_next_answers_unsaved(step, ok) ==
    CASE step = "save_user" -> IF ok THEN "retrieve" ELSE "raised"
      [] step = "retrieve" -> "build"
      [] step = "build" -> IF ok THEN "generate" ELSE "raised"
      [] step = "generate" -> IF ok THEN "respond" ELSE "raised"
      [] step = "save_assistant" -> IF ok THEN "respond" ELSE "raised"
      [] OTHER -> "responded"
ask_next_saves_failed_answer(step, ok) ==
    CASE step = "save_user" -> IF ok THEN "retrieve" ELSE "raised"
      [] step = "retrieve" -> "build"
      [] step = "build" -> IF ok THEN "generate" ELSE "raised"
      [] step = "generate" -> "save_assistant"
      [] step = "save_assistant" -> IF ok THEN "respond" ELSE "raised"
      [] OTHER -> "responded"
ask_next(step, ok) ==
    CASE step = "save_user" -> IF ok THEN "retrieve" ELSE "raised"
      [] step = "retrieve" -> "build"
      [] step = "build" -> IF ok THEN "generate" ELSE "raised"
      [] step = "generate" -> IF ok THEN "save_assistant" ELSE "raised"
      [] step = "save_assistant" -> IF ok THEN "respond" ELSE "raised"
      [] OTHER -> "responded"

\* the first command of save_message, for the steps that call it
SaveEntry(step) == IF step \in {"save_user", "save_assistant"} THEN "stamp" ELSE ""

(* The local variables of an ask call. The fields after raised are history: *)
(* steps is the list of the steps completed, failed the step that raised,   *)
(* searches and llm_calls count the calls made, generated tells how the     *)
(* LLM call ended, retrieval names the call of retrieve_context that raised *)
(* ("none" if none did), upos and apos are the positions at which the       *)
(* call's user and assistant messages were appended (the value RPUSH        *)
(* returns), and hseen is the length of the session's list when the history *)
(* was read.                                                                *)
IdleFrame ==
    [question |-> "", session_id |-> <<>>, document_ids |-> <<>>,
     sm |-> "", timestamp |-> 0,
     context_chunks |-> <<>>, messages |-> <<>>, answer |-> None,
     result |-> None, raised |-> None,
     steps |-> <<>>, failed |-> "", retrieval |-> "", searches |-> 0,
     llm_calls |-> 0, generated |-> "", upos |-> 0, apos |-> 0, hseen |-> 0]

\* the call moves on from step, re-raising an exception of another kind as
\* it is
AdvanceReraising(f, step, ok) ==
    LET next == ask_next(step, ok) IN
    [f EXCEPT !.sm = SaveEntry(next),
              !.steps = IF ok THEN Append(@, step) ELSE @,
              !.failed = IF next = "raised" THEN step ELSE @,
              !.raised = IF next # "raised" THEN @
                         ELSE IF step = "generate" THEN Some("LLMException")
                         ELSE Some("DatabaseException")]

\* the call moves on from step: to the next step, or to raising LLMException
Advance(f, step, ok) ==
    LET next == ask_next(step, ok) IN
    [f EXCEPT !.sm = SaveEntry(next),
              !.steps = IF ok THEN Append(@, step) ELSE @,
              !.failed = IF next = "raised" THEN step ELSE @,
              !.raised = IF next = "raised" THEN Some("LLMException") ELSE @]

AskCall(c) ==
    \E session_id \in AskSessions[c], document_ids \in AskFilters[c] :
        LET question == AskQuestion[c] IN
        /\ pc[c] = "idle"
        /\ pc' = [pc EXCEPT ![c] = "save_user"]
        /\ fr' = [fr EXCEPT ![c] = [IdleFrame EXCEPT !.question = question,
                                                     !.session_id = session_id,
                                                     !.document_ids = document_ids,
                                                     !.sm = "stamp"]]
        /\ UNCHANGED <<memVars, vsVars, ret, ingVars>>

InSave(c) == pc[c] \in {"save_user", "save_assistant"}
SaveRoleAssistant(c) == "assistant"
SaveRole(c) == IF pc[c] = "save_user" THEN "user" ELSE "assistant"
SaveText(c) ==
    IF pc[c] = "save_user" THEN fr[c].question
    ELSE IF fr[c].answer = None THEN "" ELSE fr[c].answer[1]

\* save_message line 38: timestamp = datetime.utcnow().isoformat(). No step
\* of ask reads a timestamp, and the clock stands still while the calls run.
SaveStamp(c) ==
    /\ InSave(c) /\ fr[c].sm = "stamp"
    /\ fr' = [fr EXCEPT ![c].timestamp = now, ![c].sm = "rpush"]
    /\ UNCHANGED <<memVars, pc, vsVars, ret, ingVars>>

\* save_message line 47: self.redis.rpush
SaveRPush(c) ==
    \E ok \in BOOLEAN :
        LET f == fr[c]
            db == save_message_rpush(redis, f.session_id, SaveRole(c), SaveText(c),
                                     f.timestamp)
            pos == LLen(db, MsgKey(f.session_id))
        IN
        /\ InSave(c) /\ f.sm = "rpush"
        /\ IF ok
           THEN /\ redis' = db
                /\ everHad' = everHad \cup {f.session_id}
                /\ pc' = pc
                /\ fr' = [fr EXCEPT ![c] =
                            IF pc[c] = "save_user"
                            THEN [f EXCEPT !.sm = "hset", !.upos = pos]
                            ELSE [f EXCEPT !.sm = "hset", !.apos = pos]]
           ELSE /\ pc' = [pc EXCEPT ![c] = ask_next(pc[c], FALSE)]
                /\ fr' = [fr EXCEPT ![c] = Advance(f, pc[c], FALSE)]
                /\ UNCHANGED <<redis, everHad>>
        /\ UNCHANGED <<now, vsVars, ret, ingVars>>

\* save_message line 49: self.redis.hset, and the return to ask
SaveHSet(c) ==
    \E ok \in BOOLEAN :
        LET f == fr[c] IN
        /\ InSave(c) /\ f.sm = "hset"
        /\ redis' = IF ok THEN save_message_hset(redis, f.session_id, f.timestamp)
                    ELSE redis
        /\ pc' = [pc EXCEPT ![c] = ask_next(pc[c], ok)]
        /\ fr' = [fr EXCEPT ![c] = Advance(f, pc[c], ok)]
        /\ UNCHANGED <<now, everHad, vsVars, ret, ingVars>>

\* ask line 204: retrieve_context
AskRetrieve(c) ==
    \E fail \in {"none", "encode", "search"} :
        \E got \in retrieve_context(index, fr[c].question, fr[c].document_ids,
                                    DefaultTopK, fail) :
            LET ok == fail = "none"
                f == [fr[c] EXCEPT !.context_chunks = got.chunks,
                                   !.searches = @ + got.searches,
                                   !.retrieval = fail]
            IN
            /\ pc[c] = "retrieve"
            /\ pc' = [pc EXCEPT ![c] = ask_next("retrieve", ok)]
            /\ fr' = [fr EXCEPT ![c] =
                        [Advance(f, "retrieve", ok) EXCEPT
                            !.steps = Append(f.steps, "retrieve")]]
            /\ UNCHANGED <<memVars, vsVars, ret, ingVars>>

\* ask lines 206-209: the history is read and the prompt is built
AskBuild(c) ==
    \E fail \in {"none", "lrange"} :
        LET f == fr[c]
            out == get_conversation_history(redis, f.session_id, HistoryWindow, fail)
            ok == out.raised = None
            messages == build_prompt(f.question, f.context_chunks,
                                     history_turns(out.value[1]))
            g == IF ok
                 THEN [f EXCEPT !.messages = messages,
                                !.hseen = LLen(redis, MsgKey(f.session_id))]
                 ELSE f
        IN
        /\ pc[c] = "build"
        /\ pc' = [pc EXCEPT ![c] = ask_next("build", ok)]
        /\ fr' = [fr EXCEPT ![c] = Advance(g, "build", ok)]
        /\ UNCHANGED <<memVars, vsVars, ret, ingVars>>

\* ask line 211: generate_answer
AskGenerate(c) ==
    \E answer \in {None} \cup {Some(a) : a \in Answers} :
        LET ok == answer # None
            f == [fr[c] EXCEPT !.answer = answer,
                               !.llm_calls = @ + 1,
                               !.generated = IF ok THEN "ok" ELSE "failed"]
        IN
        /\ pc[c] = "generate"
        /\ pc' = [pc EXCEPT ![c] = ask_next("generate", ok)]
        /\ fr' = [fr EXCEPT ![c] = Advance(f, "generate", ok)]
        /\ UNCHANGED <<memVars, vsVars, ret, ingVars>>

\* ask lines 215-224: the sources are formatted and the result is returned
AskRespond(c) ==
    LET f == [fr[c] EXCEPT !.result =
                Some([answer |-> fr[c].answer[1],
                      sources |-> format_sources(fr[c].context_chunks),
                      session_id |-> fr[c].session_id])]
    IN
    /\ pc[c] = "respond"
    /\ pc' = [pc EXCEPT ![c] = ask_next("respond", TRUE)]
    /\ fr' = [fr EXCEPT ![c] = Advance(f, "respond", TRUE)]
    /\ UNCHANGED <<memVars, vsVars, ret, ingVars>>

(* Other requests change the index while the ask calls run. *)

\* the index the ask calls start with: document A of MaxChunks chunks
IndexedA ==
    add_documents({}, 0, "A", Chunks(MaxChunks),
                  EmbeddingsFor(Chunks(MaxChunks), MaxChunks),
                  [filename |-> "a.txt"], "none")

\* document B, of the one chunk c3, is ingested
EnvAddDocuments ==
    LET out == add_documents(index, nextId, "B", <<"c3">>,
                             EmbeddingsFor(<<"c3">>, 1), [filename |-> "b.txt"], "none")
    IN
    /\ nextId = IndexedA.nextId
    /\ index' = out.index
    /\ nextId' = out.nextId
    /\ UNCHANGED <<memVars, askVars, ret, ingVars>>

\* document A is deleted
EnvDeleteByDocumentId ==
    \E out \in delete_by_document_id(index, "A", "none") :
        /\ index' = out.index
        /\ index' # index
        /\ UNCHANGED <<nextId, memVars, askVars, ret, ingVars>>

\* the list a session holds when the ask calls start: n messages, user and
\* assistant turns alternating
HistoryOf(n) ==
    [i \in 1..n |->
        json_dumps(message_data(IF i % 2 = 1 THEN "user" ELSE "assistant",
                                HistTexts[i], 0))]

Init ==
    /\ \E n \in HistSizes :
          /\ redis = IF n = 0 THEN EmptyDB
                     ELSE (MsgKey(<<"s1">>) :> HistoryOf(n))
                          @@ (MetaKey(<<"s1">>) :> [last_activity |-> 0])
          /\ everHad = IF n = 0 THEN {} ELSE {<<"s1">>}
    /\ now = 0
    /\ ret = NoRet
    /\ Deployed
    /\ index = IndexedA.index
    /\ nextId = IndexedA.nextId
    /\ pc = [c \in Callers |-> "idle"]
    /\ fr = [c \in Callers |-> IdleFrame]

Next ==
    \/ \E c \in Callers :
          \/ AskCall(c) \/ SaveStamp(c) \/ SaveRPush(c) \/ SaveHSet(c)
          \/ AskRetrieve(c) \/ AskBuild(c) \/ AskGenerate(c) \/ AskRespond(c)
    \/ EnvAddDocuments
    \/ EnvDeleteByDocumentId

Spec == Init /\ [][Next]_vars

----------------------------------------------------------------------------
(* Claims about the conversation memory, checked under SpecMem.            *)

\* the default limit of get_conversation_history
DefaultHistoryLimit == 50

\* the messages of a session as they were appended, oldest first
Stored(db, s) ==
    LET list == IF MsgKey(s) \in DOMAIN db THEN db[MsgKey(s)] ELSE <<>>
    IN  [i \in 1..Len(list) |->
            message_data(list[i][2], list[i][4], list[i][6])]

ReturnedBy(op) == ret.op = op /\ ret.raised = None

\* C6: get_conversation_history(session, limit=k) returns, for every limit
\* k >= 0, exactly the last min(k, N) of the N messages appended to the
\* session, in append order; for a session with no messages it returns the
\* empty sequence.
C6_HistoryIsLastK ==
    ReturnedBy("get_conversation_history") =>
        LET all == Stored(redis, ret.session[1])
            k == ret.arg[1]
            n == Min(k, Len(all))
        IN  ret.value[1] = SubSeq(all, Len(all) - n + 1, Len(all))

\* C7: a clear_session(s) that returns, returns the number of messages s
\* held before the call; after it get_conversation_history(s) is empty, the
\* last-activity marker of s is gone, session_exists(s) is false, and the
\* messages and markers of every other session are as they were.
C7_ClearSession ==
    [][(/\ ret'.op = "clear_session" /\ ret'.raised = None
        /\ ~(ret.op = "clear_session" /\ ret' = ret /\ redis' = redis)) =>
        LET s == ret'.session[1] IN
        /\ ret'.value = Some(Len(Stored(redis, s)))
        /\ get_conversation_history(redis', s, DefaultHistoryLimit, "none").value
               = Some(<<>>)
        /\ HGet(redis', MetaKey(s), "last_activity") = None
        /\ MetaKey(s) \notin DOMAIN redis'
        /\ ~session_exists(redis', s)
        /\ \A o \in Sessions \ {s} :
               /\ Stored(redis', o) = Stored(redis, o)
               /\ HGet(redis', MetaKey(o), "last_activity")
                      = HGet(redis, MetaKey(o), "last_activity")]_vars

\* C7 witness: a clear_session has returned 2 for a session that held two
\* messages and a marker, while the other session still holds a message.
C7_Witness ==
    /\ ReturnedBy("clear_session")
    /\ ret.value = Some(2)
    /\ \E o \in Sessions \ {ret.session[1]} :
           /\ Len(Stored(redis, o)) >= 1
           /\ HGet(redis, MetaKey(o), "last_activity") # None

C23_MarkerIsLastTimestamp ==
    (\A w \in Writers : pc[w] \in {"idle", "returned"} /\ fr[w].failures = 0) =>
        \A s \in Sessions :
            LET log == Stored(redis, s) IN
            log # <<>> =>
                HGet(redis, MetaKey(s), "last_activity")
                    = Some(log[Len(log)].timestamp)

\* C24: in every state, the timestamps of the messages of every session's
\* list do not decrease along the list, and every message a call appended
\* is still at the position it was appended at, unchanged.
C24_LogOrderedByTimestamp ==
    /\ \A s \in Sessions :
          LET log == Stored(redis, s) IN
          \A i \in 1..(Len(log) - 1) : log[i].timestamp <= log[i + 1].timestamp
    /\ \A w \in Writers : \A a \in fr[w].appended :
          /\ a.position \in 1..Len(Stored(redis, a.session_id))
          /\ Stored(redis, a.session_id)[a.position]
                = message_data(WriterSaid[w][1], WriterSaid[w][2], a.timestamp)

----------------------------------------------------------------------------
(* Claims about the vector store, checked under SpecVS.                    *)

\* the payload keys that identify a point's chunk
IdentifyingKeys == {"document_id", "chunk_index", "chunk_text"}

\* the points of the collection tagged with a document id
Tagged(idx, document_id) ==
    {p \in idx : Get(p.payload, "document_id", "") = document_id}

\* C9: add_documents called with a chunk list and an embedding list of
\* different lengths raises VectorStoreException without calling upsert, and
\* the collection holds the same points after the call as before it.
C9_LengthMismatchRejected ==
    [][(/\ ret'.op = "add_documents"
        /\ Len(ret'.arg.chunks) # Len(ret'.arg.embeddings)) =>
        /\ ret'.raised = Some("VectorStoreException")
        /\ ret'.upserts = 0
        /\ index' = index]_vars

\* C9 witness: add_documents was rejected for two chunks and one embedding
\* while the collection held a point.
C9_Witness ==
    /\ ret.op = "add_documents"
    /\ Len(ret.arg.chunks) = 2
    /\ Len(ret.arg.embeddings) = 1
    /\ ret.raised = Some("VectorStoreException")
    /\ index # {}

\* C10: after add_documents(D, chunks, embeddings) with N chunks and N
\* embeddings (and no metadata that names an identifying payload key) has
\* returned on a collection holding no point tagged D, the N points were
\* written by one upsert call, and every similarity_search with limit >= N
\* and document_ids = [D] returns exactly N results, each with document_id
\* D, whose chunk indices are 0..N-1 each exactly once and whose chunk text
\* is the chunk at that position.
C10_RoundTrip ==
    [][(/\ ret'.op = "add_documents"
        /\ ret'.raised = None
        /\ DOMAIN ret'.arg.metadata \cap IdentifyingKeys = {}
        /\ Tagged(index, ret'.arg.document_id) = {}) =>
        LET D == ret'.arg.document_id
            chunks == ret'.arg.chunks
            N == Len(chunks)
        IN
        /\ N = Len(ret'.arg.embeddings)
        /\ ret'.value = Some(N)
        /\ ret'.upserts = 1
        /\ \A query \in Queries, limit \in Max(N, 1)..MaxPoints :
             \A out \in similarity_search(index', query, limit, <<D>>, "none") :
                LET results == out.value[1] IN
                /\ out.raised = None
                /\ Len(results) = N
                /\ \A i \in 1..N : results[i].document_id = D
                /\ \A j \in 0..(N - 1) :
                      \E i \in 1..N :
                         /\ results[i].chunk_index = j
                         /\ results[i].chunk_text = chunks[j + 1]
                         /\ \A k \in 1..N :
                               results[k].chunk_index = j => k = i]_vars

\* C10 witness: add_documents has returned 2 for a document of two chunks
\* whose two points are the ones the collection holds for it.
C10_Witness ==
    /\ ret.op = "add_documents"
    /\ ret.raised = None
    /\ ret.value = Some(2)
    /\ Cardinality(Tagged(index, ret.arg.document_id)) = 2

\* C21: a successful add_documents(D, chunks, ...) with N chunks overwrites
\* nothing: every point the collection held is still there, and N points
\* with ids the collection did not hold are added, one per chunk index
\* 0..N-1, tagged D unless the metadata names an identifying key. A second
\* call with the same D and chunks so leaves each chunk index twice.
C21_InsertNotIdempotent ==
    [][(/\ ret'.op = "add_documents" /\ ret'.raised = None) =>
        LET D == ret'.arg.document_id
            N == Len(ret'.arg.chunks)
            added == index' \ index
        IN
        /\ index \subseteq index'
        /\ Cardinality(added) = N
        /\ \A p \in added : \A q \in index : p.id # q.id
        /\ \A i \in 0..(N - 1) :
              Cardinality({p \in added : p.payload.chunk_index = i}) = 1
        /\ DOMAIN ret'.arg.metadata \cap IdentifyingKeys = {} =>
              /\ added \subseteq Tagged(index', D)
              /\ Cardinality(Tagged(index', D)) = Cardinality(Tagged(index, D)) + N]_vars

\* C21 witness: add_documents has returned for a chunk list that the
\* collection already held for the same document id, and the collection
\* holds two points with that id, chunk index and text under different ids.
C21_Witness ==
    /\ ret.op = "add_documents"
    /\ ret.raised = None
    /\ Len(ret.arg.chunks) = 1
    /\ \E p, q \in Tagged(index, ret.arg.document_id) :
          /\ p.id # q.id
          /\ p.payload.chunk_index = 0 /\ q.payload.chunk_index = 0
          /\ p.payload.chunk_text = ret.arg.chunks[1]
          /\ q.payload.chunk_text = ret.arg.chunks[1]

\* C28: every point a successful add_documents(D, chunks, embeddings,
\* metadata) adds has, whatever keys the metadata names, document_id D in
\* its payload, the position of its chunk as chunk_index and that chunk as
\* chunk_text.
C28_MetadataKeepsIdentity ==
    [][(/\ ret'.op = "add_documents" /\ ret'.raised = None) =>
        \A p \in index' \ index :
            /\ p.payload.document_id = ret'.arg.document_id
            /\ p.payload.chunk_index \in 0..(Len(ret'.arg.chunks) - 1)
            /\ p.payload.chunk_text = ret'.arg.chunks[p.payload.chunk_index + 1]]_vars

\* the elements of a list
Elements(list) == {list[i] : i \in 1..Len(list)}

\* C11: a similarity_search filtered to a non-empty list of document ids,
\* on a collection holding points of two documents written by any calls of
\* add_documents, returns only results whose document_id is in the list.
C11_FilteredIsolation ==
    (/\ ret.op = "similarity_search" /\ ret.raised = None
     /\ ret.arg.document_ids # <<>>) =>
        \A i \in 1..Len(ret.value[1]) :
            ret.value[1][i].document_id \in Elements(ret.arg.document_ids)

\* C11 witness: a search filtered to [A] has returned a result while the
\* collection holds a point tagged B.
C11_Witness ==
    /\ ret.op = "similarity_search" /\ ret.raised = None
    /\ ret.arg.document_ids = <<"A">>
    /\ Len(ret.value[1]) >= 1
    /\ Tagged(index, "B") # {}

\* C13: when delete_by_document_id(D) returns, whatever the number of points
\* tagged D (none, or more than one scroll page), no point tagged D remains
\* and no unfiltered search returns one, the returned count is the number of
\* points that were tagged D, and the points of other documents are as they
\* were.
C13_DeleteCompleteness ==
    [][(ret'.op = "delete_by_document_id" /\ ret'.raised = None) =>
        LET D == ret'.arg.document_id IN
        /\ Tagged(index', D) = {}
        /\ ret'.value = Some(Cardinality(Tagged(index, D)))
        /\ \A o \in DocIds \ {D} : Tagged(index', o) = Tagged(index, o)
        /\ \A query \in Queries, limit \in 1..MaxPoints :
              \A out \in similarity_search(index', query, limit, <<>>, "none") :
                 \A i \in 1..Len(out.value[1]) :
                    out.value[1][i].document_id # D]_vars

\* C12: whenever the caller supplies a document_ids list to
\* similarity_search, an empty list included, every result's document_id is
\* in the supplied list; a supplied empty list yields an empty result.
C12_SuppliedFilterRestricts ==
    (/\ ret.op = "similarity_search" /\ ret.raised = None
     /\ ret.arg.supplied) =>
        \A i \in 1..Len(ret.value[1]) :
            ret.value[1][i].document_id \in Elements(ret.arg.document_ids)

----------------------------------------------------------------------------
(* Claims about the orchestrator, checked under Spec.                      *)

\* the session an ask call writes to, as appended, oldest first
Log(c) == Stored(redis, fr[c].session_id)

\* the call's own user question is in its session's list, where it was put
QuestionPersisted(c) ==
    /\ fr[c].upos \in 1..Len(Log(c))
    /\ Log(c)[fr[c].upos].role = "user"
    /\ Log(c)[fr[c].upos].message = fr[c].question

\* the call's own assistant message is in its session's list
AnswerPersisted(c) ==
    /\ fr[c].apos \in 1..Len(Log(c))
    /\ Log(c)[fr[c].apos].role = "assistant"
    /\ Log(c)[fr[c].apos].message = fr[c].answer[1]

\* the last turn of the call's prompt
UserTurn(c) == fr[c].messages[Len(fr[c].messages)]

\* C1: once the LLM generation step of an ask call has failed, the call has
\* ended by raising LLMException after a single LLM call, returns no result,
\* its user question is in the session's list and it has appended no
\* assistant message.
C1_GenerationFailure ==
    \A c \in Callers :
        fr[c].generated = "failed" =>
            /\ pc[c] = "raised"
            /\ fr[c].raised = Some("LLMException")
            /\ fr[c].result = None
            /\ fr[c].llm_calls = 1
            /\ QuestionPersisted(c)
            /\ fr[c].apos = 0
            /\ \A i \in (fr[c].upos + 1)..Len(Log(c)) :
                  Log(c)[i].role = "assistant" =>
                      \E o \in Callers \ {c} :
                          fr[o].session_id = fr[c].session_id /\ fr[o].apos = i

\* C1 witness: a call has raised after its generation failed, and its
\* question is the last message of a session that held messages before.
C1_Witness ==
    \E c \in Callers :
        /\ fr[c].generated = "failed"
        /\ pc[c] = "raised"
        /\ fr[c].upos = Len(Log(c))
        /\ fr[c].upos > 1

\* C2: when no other writer wrote to the session between the call's own
\* append and its history read, and the session held n messages before the
\* call, the prompt is one system turn, then the last min(n, 5) prior
\* messages oldest first, then one user turn holding the context block and
\* the question; for n = 0 it has exactly two turns.
C2_PromptShape ==
    \A c \in Callers :
        (fr[c].messages # <<>> /\ fr[c].hseen = fr[c].upos) =>
            LET n == fr[c].upos - 1
                k == Min(n, 5)
                turns == [i \in 1..k |->
                            [role |-> Log(c)[n - k + i].role,
                             content |-> [text |-> Log(c)[n - k + i].message]]]
            IN
            /\ fr[c].messages =
                  <<SystemMessage>> \o turns
                  \o <<[role |-> "user",
                        content |-> [context |-> _format_context(fr[c].context_chunks),
                                     question |-> fr[c].question]]>>
            /\ n = 0 => Len(fr[c].messages) = 2
            /\ \A i \in 1..Len(fr[c].messages) :
                  fr[c].messages[i].role = "system" <=> i = 1

\* C2 witness: a prompt was built, with no other writer, on a session that
\* held more than five messages, and has five history turns.
C2_Witness ==
    \E c \in Callers :
        /\ fr[c].messages # <<>>
        /\ fr[c].hseen = fr[c].upos
        /\ fr[c].upos - 1 > 5
        /\ Len(fr[c].messages) = 7

\* C3: a failure of the query encoding or of the vector search does not end
\* the call: the chunk list is empty, the call goes on to build its prompt,
\* whose context block is the sentinel, and to the LLM call, and when it
\* responds it returns the answer with no sources, with its user and its
\* assistant message in the session's list.
C3_RetrievalFailureRecovered ==
    \A c \in Callers :
        fr[c].retrieval \in {"encode", "search"} =>
            /\ fr[c].context_chunks = <<>>
            /\ fr[c].failed # "retrieve"
            /\ pc[c] # "retrieve"
            /\ fr[c].messages # <<>> =>
                  UserTurn(c).content.context
                      = [sentinel |-> "No relevant context found.", parts |-> <<>>]
            /\ pc[c] \in {"save_assistant", "respond", "responded"} =>
                  fr[c].llm_calls = 1 /\ fr[c].generated = "ok"
            /\ pc[c] = "responded" =>
                  /\ fr[c].result = Some([answer |-> fr[c].answer[1],
                                          sources |-> <<>>,
                                          session_id |-> fr[c].session_id])
                  /\ QuestionPersisted(c)
                  /\ AnswerPersisted(c)

\* C3 witness: a call whose vector search failed has responded, while the
\* index held points.
C3_Witness ==
    \E c \in Callers :
        /\ fr[c].retrieval = "search"
        /\ pc[c] = "responded"
        /\ index # {}

\* C4: a call that has returned a result has completed, in this order and
\* once each, the steps save user message, retrieve, build prompt, generate,
\* save assistant message, respond; an assistant message is appended only
\* after the generation succeeded, and a result exists only after the
\* assistant message was saved.
C4_StepsInOrder ==
    \A c \in Callers :
        /\ pc[c] = "responded" =>
              /\ fr[c].steps = <<"save_user", "retrieve", "build", "generate",
                                 "save_assistant", "respond">>
              /\ fr[c].result # None
        /\ fr[c].apos > 0 => fr[c].generated = "ok"
        /\ fr[c].result # None =>
              /\ AnswerPersisted(c)
              /\ \E i \in 1..Len(fr[c].steps) : fr[c].steps[i] = "save_assistant"

\* C4 witness: both calls have returned a result on the same session.
C4_Witness ==
    /\ \A c \in Callers : pc[c] = "responded"
    /\ \A c, o \in Callers : fr[c].session_id = fr[o].session_id

\* the sources a call returned are, one for one and in order, the chunks
\* rendered into its prompt's context block
SourcesAreRenderedChunks(c) ==
    LET sources == fr[c].result[1].sources
        parts == UserTurn(c).content.context.parts
        chunks == fr[c].context_chunks
    IN
    /\ Len(sources) = Len(parts)
    /\ Len(sources) = Len(chunks)
    /\ sources = <<>> => UserTurn(c).content.context.sentinel = NoContext
    /\ \A i \in 1..Len(sources) :
          /\ parts[i].source = i
          /\ parts[i].text = sources[i].text
          /\ parts[i].document_name = sources[i].document_name
          /\ parts[i].relevance = Round2(sources[i].similarity_score)
          /\ sources[i].text = chunks[i].chunk_text
          /\ sources[i].document_id = chunks[i].document_id
          /\ sources[i].document_name = chunks[i].document_name
          /\ sources[i].chunk_index = chunks[i].chunk_index
          /\ sources[i].similarity_score = chunks[i].score

\* C5 as stated: in every ask call that has returned, the sources are the
\* chunks rendered into the prompt, and the index was searched exactly once.
C5_SourcesAndOneSearch ==
    \A c \in Callers :
        pc[c] = "responded" =>
            /\ SourcesAreRenderedChunks(c)
            /\ fr[c].searches = 1

\* C5 as amended: in every ask call that has returned, the sources are the
\* chunks rendered into the prompt, whatever has changed the index since,
\* and the index was searched at most once: once when the query was
\* encoded, not at all when the encoding failed.
C5_SourcesAndAtMostOneSearch ==
    \A c \in Callers :
        /\ fr[c].searches = IF fr[c].retrieval \in {"none", "search"} THEN 1 ELSE 0
        /\ pc[c] = "responded" => SourcesAreRenderedChunks(c)

\* C5 witness: a call has returned two or more sources of a document that
\* has been deleted from the index since, while another was added.
C5_Witness ==
    \E c \in Callers :
        /\ pc[c] = "responded"
        /\ Len(fr[c].result[1].sources) >= 2
        /\ \A i \in 1..Len(fr[c].result[1].sources) :
              Tagged(index, fr[c].result[1].sources[i].document_id) = {}
        /\ index # {}

\* C22: in every prompt an ask call has built, whatever the other call did
\* in between, the message left out of the history that was read is the
\* call's own question (the list ended with it when it was read), and no
\* history turn of the prompt is the call's own question.
C22_OwnQuestionNotInHistory ==
    \A c \in Callers :
        fr[c].messages # <<>> =>
            /\ fr[c].hseen = fr[c].upos
            /\ \A i \in 2..(Len(fr[c].messages) - 1) :
                  fr[c].messages[i] # [role |-> "user",
                                       content |-> [text |-> fr[c].question]]

\* the positions of a session's list holding a message of a role, and the
\* positions holding a message the session held before the ask calls started
PriorTexts == {HistTexts[j] : j \in 1..Len(HistTexts)}
RawList(s) == IF MsgKey(s) \in DOMAIN redis THEN redis[MsgKey(s)] ELSE <<>>
RolePositions(s, role) ==
    {i \in 1..Len(RawList(s)) : json_loads(RawList(s)[i]).role = role}
PriorPositions(s) ==
    {i \in 1..Len(RawList(s)) : json_loads(RawList(s)[i]).message \in PriorTexts}
\* the calls that have appended a user, or an assistant, message to a session
Asked(s) == {c \in Callers : fr[c].session_id = s /\ fr[c].upos > 0}
Answered(s) == {c \in Callers : fr[c].session_id = s /\ fr[c].apos > 0}

\* C26: in every state of a session written only by ask calls, the list
\* holds at most as many assistant as user messages; every assistant
\* message comes after the user question of the call that appended it (for
\* the messages of earlier calls: after a user message); every message
\* added since the calls started is the one user or the one assistant
\* message of a call; and a call that has returned has added both.
C26_AssistantFollowsUser ==
    /\ \A s \in Sessions :
          LET log == RawList(s)
              users == RolePositions(s, "user")
              assistants == RolePositions(s, "assistant")
              prior == PriorPositions(s)
          IN
          /\ Cardinality(assistants) <= Cardinality(users)
          /\ \A i \in assistants :
                \/ i \in prior /\ (i - 1) \in users
                \/ \E c \in Answered(s) :
                      /\ fr[c].apos = i
                      /\ fr[c].upos \in users
                      /\ fr[c].upos < i
                      /\ json_loads(log[fr[c].upos]).message = fr[c].question
          /\ Cardinality(users \ prior) = Cardinality(Asked(s))
          /\ Cardinality(assistants \ prior) = Cardinality(Answered(s))
          /\ users \cup assistants = 1..Len(log)
    /\ \A c \in Callers :
          pc[c] = "responded" =>
              /\ QuestionPersisted(c)
              /\ AnswerPersisted(c)
              /\ fr[c].upos < fr[c].apos

\* C26 witness: both calls have returned on the same session, which held
\* messages before, after their appends interleaved: both questions were
\* appended before either answer.
C26_Witness ==
    /\ \A c \in Callers : pc[c] = "responded" /\ fr[c].session_id = <<"s1">>
    /\ PriorPositions(<<"s1">>) # {}
    /\ \A c, o \in Callers : fr[c].upos < fr[o].apos

\* C27: an ask call that has ended has either returned a result, or raised
\* LLMException and returned none, whichever step failed (saving the user
\* message, reading the history, the LLM call, saving the assistant
\* message); no call raises anything else; and a call whose user message
\* was not saved has raised without a search and without an LLM call.
C27_FailuresSurfaceAsLLMError ==
    \A c \in Callers :
        /\ fr[c].raised \in {None, Some("LLMException")}
        /\ pc[c] = "raised" <=> fr[c].raised # None
        /\ pc[c] = "raised" =>
              /\ fr[c].result = None
              /\ fr[c].failed \in {"save_user", "build", "generate", "save_assistant"}
        /\ pc[c] = "responded" => fr[c].result # None
        /\ fr[c].failed = "save_user" =>
              /\ fr[c].searches = 0
              /\ fr[c].llm_calls = 0
              /\ fr[c].steps = <<>>
        /\ (pc[c] \notin {"idle", "save_user"}
             /\ \A i \in 1..Len(fr[c].steps) : fr[c].steps[i] # "save_user") =>
              pc[c] = "raised" /\ fr[c].failed = "save_user"

\* C27 witness: one call has raised because saving its user message failed
\* after the message was appended, and the other because saving its
\* assistant message failed.
C27_Witness ==
    \E c, o \in Callers :
        /\ pc[c] = "raised" /\ fr[c].failed = "save_user" /\ fr[c].upos > 0
        /\ pc[o] = "raised" /\ fr[o].failed = "save_assistant"

----------------------------------------------------------------------------
(* Claims about the chunker, checked under SpecChunk.                      *)

\* the smallest integer not below a / b, for b > 0
CeilDiv(a, b) == (a + b - 1) \div b

\* C16: a call of chunk_text_fixed that runs with chunk size S and overlap
\* O < S on a text of length L > S returns exactly ceil((L - O) / (S - O))
\* chunks.
C16_ChunkCount ==
    \A c \in ChunkCalls :
        (/\ pc[c] = "returned"
         /\ fr[c].overlap < fr[c].chunk_size
         /\ Len(fr[c].text) > fr[c].chunk_size) =>
            Len(fr[c].result[1])
                = CeilDiv(Len(fr[c].text) - fr[c].overlap,
                          fr[c].chunk_size - fr[c].overlap)

\* C17: every call of chunk_text_fixed that is passed a chunk_size S >= 1
\* and an overlap O with 0 <= O < S returns.
C17_Terminates ==
    \A c \in ChunkCalls :
        (/\ pc[c] = "loop"
         /\ fr[c].arg_chunk_size # None /\ fr[c].arg_overlap # None
         /\ fr[c].arg_chunk_size[1] >= 1
         /\ 0 <= fr[c].arg_overlap[1]
         /\ fr[c].arg_overlap[1] < fr[c].arg_chunk_size[1])
            ~> pc[c] = "returned"

\* C18: a call of chunk_text_fixed on a text no longer than the chunk size
\* returns exactly one chunk, the text with leading and trailing whitespace
\* removed.
C18_ShortTextOneTrimmedChunk ==
    \A c \in ChunkCalls :
        (pc[c] = "returned" /\ Len(fr[c].text) <= fr[c].chunk_size) =>
            fr[c].result[1] = <<strip(fr[c].text)>>

----------------------------------------------------------------------------
(* Claims about the embedding provider, checked under SpecEmb.             *)

\* a text with no character that is not whitespace
Blank(text) == \A i \in 1..Len(text) : IsSpace(text[i])

\* the entries of a list that are not blank, in the list's order
RECURSIVE NonBlanks(_)
NonBlanks(texts) ==
    IF texts = <<>> THEN <<>>
    ELSE IF Blank(texts[1]) THEN NonBlanks(Tail(texts))
    ELSE <<texts[1]>> \o NonBlanks(Tail(texts))

\* C19: generate_embeddings_batch raises EmbeddingGenerationException when
\* the list is empty or every entry is blank; otherwise, unless the model's
\* encode call itself fails, it returns one vector per non-blank entry, in
\* the order of the non-blank entries; it raises nothing else.
C19_BatchEmbeddings ==
    ret.op = "generate_embeddings_batch" =>
        LET kept == NonBlanks(ret.arg) IN
        /\ kept = <<>> => ret.raised = Some("EmbeddingGenerationException")
        /\ (kept # <<>> /\ ret.fail = "none") =>
              /\ ret.raised = None
              /\ ret.value = Some([i \in 1..Len(kept) |-> Encode(Join(kept[i]))])
        /\ ret.raised \in {None, Some("EmbeddingGenerationException")}

\* C19 witness: a batch of three texts with a blank one before two
\* different non-blank ones has returned two vectors.
C19_Witness ==
    /\ ret.op = "generate_embeddings_batch"
    /\ ret.raised = None
    /\ Len(ret.arg) = 3
    /\ Blank(ret.arg[1])
    /\ ~Blank(ret.arg[2]) /\ ~Blank(ret.arg[3]) /\ ret.arg[2] # ret.arg[3]
    /\ Len(ret.value[1]) = 2

----------------------------------------------------------------------------
(* Claims about ingestion and the vector store's initialisation.           *)

\* no upload is between its request and its response or error, and no
\* delete request has been made
Quiescent ==
    /\ \A u \in Uploads : pc[u] \in {"idle", "responded", "raised"}
    /\ \A d \in Deleters : pc[d] = "idle"
\* what the three stores hold of a document id
DocumentRows(document_id) == {d \in sql.documents : d.document_id = document_id}
ChunkRows(document_id) == {c \in sql.document_chunks : c.document_id = document_id}
VectorEntries(document_id) ==
    {p \in index : Get(p.payload, "document_id", "") = document_id}

\* C14: whenever no upload is in flight and no delete request has been
\* made, every document id has its document
\* record together with all the chunk records and all the vector entries its
\* chunk_count announces, or has no record, no chunk record and no vector
\* entry at all.
C14_IngestAtomic ==
    Quiescent =>
        \A document_id \in DocIds :
            \/ /\ DocumentRows(document_id) = {}
               /\ ChunkRows(document_id) = {}
               /\ VectorEntries(document_id) = {}
            \/ \E d \in DocumentRows(document_id) :
                  /\ DocumentRows(document_id) = {d}
                  /\ Cardinality(ChunkRows(document_id)) = d.chunk_count
                  /\ Cardinality(VectorEntries(document_id)) = d.chunk_count

\* C15: the embeddings an upload passes to add_documents are as many as its
\* chunks, and once an upload has responded its document has, for every
\* index from 0 to chunk_count - 1, one chunk record and one vector entry,
\* both with the text of the chunk the chunker produced at that place.
C15_OneVectorPerChunk ==
    \A u \in Uploads :
        /\ pc[u] = "add_documents" => Len(fr[u].embeddings) = Len(fr[u].chunks)
        /\ pc[u] = "responded" =>
              LET document_id == fr[u].document_id
                  chunks == Strings(fr[u].chunks)
              IN  /\ \E d \in DocumentRows(document_id) : d.chunk_count = Len(chunks)
                  /\ Cardinality(ChunkRows(document_id)) = Len(chunks)
                  /\ Cardinality(VectorEntries(document_id)) = Len(chunks)
                  /\ \A i \in 1..Len(chunks) :
                        /\ \E c \in ChunkRows(document_id) :
                              c.chunk_index = i - 1 /\ c.chunk_text = chunks[i]
                        /\ \E p \in VectorEntries(document_id) :
                              /\ p.payload.chunk_index = i - 1
                              /\ p.payload.chunk_text = chunks[i]

\* C20: the vector store is never initialised on a collection whose vector
\* size is not the embedding provider's dimension: such an initialisation
\* raises and leaves the store uninitialised.
C20_InitRejectsMismatch ==
    store # None => collection = Some(store[1].vector_size)

\* C30: a delete request for a document whose upload has ended and whose
\* vector entries fit one scroll page ends either responding, with no
\* document record, no chunk record and no vector entry of the document
\* left, or raising, with all three as they were when it was made.
C30_DeleteAllOrNothing ==
    \A d \in Deleters :
        (fr[d].settled /\ Cardinality(fr[d].before.vectors) <= ScrollLimit) =>
            LET document_id == fr[d].document_id IN
            /\ pc[d] = "responded" =>
                  /\ DocumentRows(document_id) = {}
                  /\ ChunkRows(document_id) = {}
                  /\ VectorEntries(document_id) = {}
            /\ pc[d] = "raised" =>
                  /\ DocumentRows(document_id) = fr[d].before.documents
                  /\ ChunkRows(document_id) = fr[d].before.document_chunks
                  /\ VectorEntries(document_id) = fr[d].before.vectors

----------------------------------------------------------------------------
(* Claims about the first requests of a process, checked under SpecBoot.   *)

\* C25: in every state the model has been loaded at most once and at most
\* one request has constructed a QdrantVectorStore, and any two requests
\* whose dependencies are resolved hold the same embedding service and the
\* same vector store instance.
C25_CreatedOnce ==
    /\ provider.loads <= 1
    /\ Cardinality({r \in Requests : fr[r].constructed}) <= 1
    /\ \A r, q \in Requests :
          (pc[r] = "resolved" /\ pc[q] = "resolved") =>
              /\ fr[r].embedding_service = fr[q].embedding_service
              /\ fr[r].vector_store = fr[q].vector_store

\* C29: whenever no request is about to load or loading the model, every
\* request that get_embedding_service has returned an instance to holds an
\* instance that was initialized: its model and its embedding dimension
\* are set.
C29_NoUninitializedInstance ==
    (\A q \in Requests : pc[q] \notin {"_initialize", "load"}) =>
        \A r \in Requests :
            fr[r].embedding_service # None =>
                LET service == provider.objects[fr[r].embedding_service[1]] IN
                service.model # None /\ service.embedding_dim # None

====
